---------------------------- MODULE Spec2Model ----------------------------
(***************************************************************************)
(* The streaming parsers of rhorizons (src/src/ephemeris.rs):              *)
(* EphemerisVectorParser and EphemerisOrbitalElementsParser, two iterators *)
(* that pull text lines from an input iterator and lazily yield records.   *)
(*                                                                         *)
(* Lines are TLA+ strings and are decoded character by character, as the   *)
(* code does: label prefixes, 22-character fields, str::trim, the f32      *)
(* grammar of Rust's FromStr and the "%Y-%b-%d %H:%M:%S" date format.      *)
(***************************************************************************)
EXTENDS Integers, Sequences, FiniteSets, TLC

(***************************************************************************)
(* Bounds of the model.                                                    *)
(***************************************************************************)
\* records between the sentinels of a generated document
MaxRecords == 2
\* header lines before the first "$$SOE"
MaxHeader == 1
\* next() calls the caller still makes after the first None
MaxExtraCalls == 2

(***************************************************************************)
(* Program constants.                                                      *)
(***************************************************************************)
\* width of a data field: take_or_empty(line, 22)
FieldWidth == 22
\* width of the date text: take_or_empty(date_time_str, 20)
DateWidth == 20

(***************************************************************************)
(* Characters and strings.                                                 *)
(***************************************************************************)
CharAt(s, i) == SubSeq(s, i, i)

Digits == {"0", "1", "2", "3", "4", "5", "6", "7", "8", "9"}

DigitVal(c) ==
    CASE c = "0" -> 0 [] c = "1" -> 1 [] c = "2" -> 2 [] c = "3" -> 3
      [] c = "4" -> 4 [] c = "5" -> 5 [] c = "6" -> 6 [] c = "7" -> 7
      [] c = "8" -> 8 [] c = "9" -> 9

\* the lower-case form of the letters the f32 grammar compares without case
Lower(c) ==
    CASE c = "N" -> "n" [] c = "A" -> "a" [] c = "I" -> "i" [] c = "F" -> "f"
      [] c = "T" -> "t" [] c = "Y" -> "y"
      [] OTHER -> c

RECURSIVE LowerStr(_)
LowerStr(s) == IF s = "" THEN "" ELSE Lower(CharAt(s, 1)) \o LowerStr(Tail(s))

StartsWith(s, p) == Len(s) >= Len(p) /\ SubSeq(s, 1, Len(p)) = p

Drop(s, n) == SubSeq(s, n + 1, Len(s))

\* str::trim: the white space of the lines modelled is the space character
RECURSIVE TrimStart(_)
TrimStart(s) == IF s # "" /\ CharAt(s, 1) = " " THEN TrimStart(Tail(s)) ELSE s

RECURSIVE TrimEnd(_)
TrimEnd(s) ==
    IF s # "" /\ CharAt(s, Len(s)) = " " THEN TrimEnd(SubSeq(s, 1, Len(s) - 1)) ELSE s

Trim(s) == TrimEnd(TrimStart(s))

(***************************************************************************)
(* utilities::take_expecting and utilities::take_or_empty.                 *)
(***************************************************************************)
\* Ok(rest of the line) when the line starts with the label, Err otherwise
take_expecting(line, label) ==
    IF StartsWith(line, label)
    THEN [ok |-> TRUE, rest |-> Drop(line, Len(label))]
    ELSE [ok |-> FALSE, rest |-> line]

\* the first n characters and the rest; a shorter line is taken whole
take_or_empty(line, n) ==
    IF Len(line) > n
    THEN [field |-> SubSeq(line, 1, n), rest |-> Drop(line, n)]
    ELSE [field |-> line, rest |-> ""]

(***************************************************************************)
(* str::parse::<f32>.  A finite value is kept as the decimal it denotes,   *)
(* sign * m * 10^e with m not divisible by 10 (m = 0, e = 0 for zero):     *)
(* two texts of at most six significant digits denote the same f32 exactly *)
(* when they denote the same decimal.                                      *)
(***************************************************************************)
\* the index after the run of digits that starts at i
RECURSIVE ScanDigits(_, _)
ScanDigits(s, i) ==
    IF i <= Len(s) /\ CharAt(s, i) \in Digits THEN ScanDigits(s, i + 1) ELSE i

\* the number a run of digits denotes
RECURSIVE DecVal(_)
DecVal(ds) ==
    IF ds = "" THEN 0
    ELSE 10 * DecVal(SubSeq(ds, 1, Len(ds) - 1)) + DigitVal(CharAt(ds, Len(ds)))

\* a run of digits as m * 10^z: m is the number up to the last non-zero
\* digit, z the count of zeros after it
Mantissa(ds) ==
    LET nz == {i \in 1..Len(ds) : CharAt(ds, i) # "0"}
        last == IF nz = {} THEN 0 ELSE CHOOSE i \in nz : \A j \in nz : j <= i
    IN  [m |-> DecVal(SubSeq(ds, 1, last)), z |-> Len(ds) - last]

AllDigits(s) == s # "" /\ ScanDigits(s, 1) = Len(s) + 1

\* the value of the one element of a set: Only({F(x) : x \in {e}}) is F(e)
\* with e evaluated once
Only(S) == CHOOSE x \in S : TRUE

NotDecimal == [ok |-> FALSE, m |-> 0, e |-> 0]

\* the digits ds, nfrac of them after the point, times 10^exp
Decimal(ds, nfrac, exp) ==
    Only({ [ok |-> TRUE, m |-> mz.m,
            e |-> IF mz.m = 0 THEN 0 ELSE mz.z + exp - nfrac] :
           mz \in {Mantissa(ds)} })

\* the text after "e" or "E": an optional sign and at least one digit
ParseExponent(t) ==
    IF t # "" /\ CharAt(t, 1) \in {"+", "-"}
    THEN IF AllDigits(Tail(t))
         THEN [ok |-> TRUE,
               exp |-> IF CharAt(t, 1) = "-" THEN 0 - DecVal(Tail(t)) ELSE DecVal(Tail(t))]
         ELSE [ok |-> FALSE, exp |-> 0]
    ELSE IF AllDigits(t) THEN [ok |-> TRUE, exp |-> DecVal(t)]
         ELSE [ok |-> FALSE, exp |-> 0]

\* the integer digits end before i1, the fraction digits (after a point at
\* i1, if any) before i2; an exponent or the end of the text must follow
DecimalAfterFraction(body, i1, i2) ==
    LET ds == SubSeq(body, 1, i1 - 1) \o SubSeq(body, i1 + 1, i2 - 1)
        nfrac == IF i2 > i1 THEN i2 - i1 - 1 ELSE 0
    IN  IF ds = "" THEN NotDecimal
        ELSE IF i2 = Len(body) + 1 THEN Decimal(ds, nfrac, 0)
        ELSE IF CharAt(body, i2) \in {"e", "E"}
        THEN Only({ IF x.ok THEN Decimal(ds, nfrac, x.exp) ELSE NotDecimal :
                    x \in {ParseExponent(Drop(body, i2))} })
        ELSE NotDecimal

DecimalAfterInt(body, i1) ==
    Only({ DecimalAfterFraction(body, i1, i2) :
           i2 \in { IF i1 <= Len(body) /\ CharAt(body, i1) = "."
                    THEN ScanDigits(body, i1 + 1) ELSE i1 } })

\* digits, an optional point and digits, an optional exponent
ParseDecimal(body) ==
    Only({ DecimalAfterInt(body, i1) : i1 \in {ScanDigits(body, 1)} })

F32Err == [ok |-> FALSE, val |-> [kind |-> "err", neg |-> FALSE, m |-> 0, e |-> 0]]

F32(kind, neg, m, e) ==
    [ok |-> TRUE, val |-> [kind |-> kind, neg |-> neg, m |-> m, e |-> e]]

\* a number, or "nan", "inf", "infinity" in any case
ParseUnsigned(neg, body) ==
    Only({ IF d.ok THEN F32("num", neg /\ d.m # 0, d.m, d.e)
           ELSE IF LowerStr(body) = "nan" THEN F32("nan", neg, 0, 0)
           ELSE IF LowerStr(body) \in {"inf", "infinity"} THEN F32("inf", neg, 0, 0)
           ELSE F32Err :
           d \in {ParseDecimal(body)} })

ParseF32(s) ==
    IF s # "" /\ CharAt(s, 1) \in {"+", "-"}
    THEN ParseUnsigned(CharAt(s, 1) = "-", Tail(s))
    ELSE ParseUnsigned(FALSE, s)

(***************************************************************************)
(* NaiveDateTime::parse_from_str(time, "%Y-%b-%d %H:%M:%S").and_utc()      *)
(***************************************************************************)
MonthNames ==
    <<"Jan", "Feb", "Mar", "Apr", "May", "Jun",
      "Jul", "Aug", "Sep", "Oct", "Nov", "Dec">>

MonthOf(name) ==
    IF \E k \in 1..12 : MonthNames[k] = name
    THEN CHOOSE k \in 1..12 : MonthNames[k] = name
    ELSE 0

IsLeap(y) == (y % 4 = 0 /\ y % 100 # 0) \/ y % 400 = 0

DaysIn(y, mo) ==
    IF mo = 2 THEN (IF IsLeap(y) THEN 29 ELSE 28)
    ELSE IF mo \in {4, 6, 9, 11} THEN 30 ELSE 31

NoTime ==
    [year |-> 0, month |-> 0, day |-> 0, hour |-> 0, minute |-> 0,
     second |-> 0, nano |-> 0]

\* the text must be YYYY-Mon-DD HH:MM:SS and nothing more: text after the
\* seconds is a parse error
ParseNaive(t) ==
    LET shape == /\ Len(t) = 20
                 /\ AllDigits(SubSeq(t, 1, 4)) /\ CharAt(t, 5) = "-"
                 /\ CharAt(t, 9) = "-" /\ AllDigits(SubSeq(t, 10, 11))
                 /\ CharAt(t, 12) = " " /\ AllDigits(SubSeq(t, 13, 14))
                 /\ CharAt(t, 15) = ":" /\ AllDigits(SubSeq(t, 16, 17))
                 /\ CharAt(t, 18) = ":" /\ AllDigits(SubSeq(t, 19, 20))
        y == DecVal(SubSeq(t, 1, 4))
        mo == MonthOf(SubSeq(t, 6, 8))
        d == DecVal(SubSeq(t, 10, 11))
        h == DecVal(SubSeq(t, 13, 14))
        mi == DecVal(SubSeq(t, 16, 17))
        s == DecVal(SubSeq(t, 19, 20))
    IN  IF shape /\ mo # 0 /\ d >= 1 /\ d <= DaysIn(y, mo)
           /\ h <= 23 /\ mi <= 59 /\ s <= 59
        THEN [ok |-> TRUE,
              time |-> [year |-> y, month |-> mo, day |-> d, hour |-> h,
                        minute |-> mi, second |-> s, nano |-> 0]]
        ELSE [ok |-> FALSE, time |-> NoTime]

\* line.split_terminator('='): the pieces between the "=" characters, without
\* a last empty piece
RECURSIVE SplitEq(_, _)
SplitEq(s, cur) ==
    IF s = "" THEN (IF cur = "" THEN <<>> ELSE <<cur>>)
    ELSE IF CharAt(s, 1) = "="
         THEN <<cur>> \o SplitEq(Tail(s), "")
         ELSE SplitEq(Tail(s), cur \o CharAt(s, 1))

split_terminator(line) ==
    IF line = "" THEN <<>>
    ELSE IF CharAt(line, Len(line)) = "="
         THEN SplitEq(SubSeq(line, 1, Len(line) - 1), "") \o
              (IF Len(line) = 1 THEN <<"">> ELSE <<>>)
         ELSE SplitEq(line, "")

\* DateAfterEra keeping the fraction: 25 characters, the digits after the
\* point read as nanoseconds
DateAfterEraWithFraction(text) ==
    Only({ IF r.ok /\ Len(f) = 25 /\ CharAt(f, 21) = "." /\ AllDigits(SubSeq(f, 22, 25))
           THEN [ok |-> TRUE,
                 time |-> [r.time EXCEPT !.nano = DecVal(SubSeq(f, 22, 25))],
                 err |-> "none"]
           ELSE [ok |-> FALSE, time |-> NoTime, err |-> "DateParseError"] :
           <<f, r>> \in { <<f, ParseNaive(SubSeq(f, 1, IF Len(f) < 20 THEN Len(f) ELSE 20))>> :
                          f \in {take_or_empty(text, 25).field} } })

\* the date text after "A.D. ", cut to 20 characters and parsed
DateAfterEra(text) ==
    Only({ IF r.ok THEN [ok |-> TRUE, time |-> r.time, err |-> "none"]
           ELSE [ok |-> FALSE, time |-> NoTime, err |-> "DateParseError"] :
           r \in {ParseNaive(take_or_empty(text, DateWidth).field)} })

\* the second piece of the line, trimmed, must start with "A.D. "
DateOfParts(parts) ==
    IF Len(parts) < 2 THEN [ok |-> FALSE, time |-> NoTime, err |-> "IndexOutOfBounds"]
    ELSE Only({ IF date_time_str.ok THEN DateAfterEra(date_time_str.rest)
                ELSE [ok |-> FALSE, time |-> NoTime, err |-> "UnexpectedLabel"] :
                date_time_str \in {take_expecting(Trim(parts[2]), "A.D. ")} })

\* the result of parse_date_time: a time, or the cause of the panic
parse_date_time(line) ==
    Only({ DateOfParts(parts) : parts \in {split_terminator(line)} })

(***************************************************************************)
(* A data line: three labelled fields.  The labels are checked and the     *)
(* fields split off left to right (each take_expecting(..).unwrap() can    *)
(* panic), then the three fields are trimmed and parsed (each              *)
(* parse::<f32>().unwrap() can panic).                                     *)
(***************************************************************************)
\* TakeThree refusing a line with text after its third field
TakeThreeNothingAfter(line, l1, l2, l3) ==
    LET a == take_expecting(line, l1)
        f1 == take_or_empty(a.rest, FieldWidth)
        b == take_expecting(f1.rest, l2)
        f2 == take_or_empty(b.rest, FieldWidth)
        c == take_expecting(f2.rest, l3)
        f3 == take_or_empty(c.rest, FieldWidth)
    IN  IF a.ok /\ b.ok /\ c.ok /\ f3.rest = ""
        THEN [ok |-> TRUE, fields |-> <<f1.field, f2.field, f3.field>>]
        ELSE [ok |-> FALSE, fields |-> <<>>]

TakeThree(line, l1, l2, l3) ==
    LET a == take_expecting(line, l1)
        f1 == take_or_empty(a.rest, FieldWidth)
        b == take_expecting(f1.rest, l2)
        f2 == take_or_empty(b.rest, FieldWidth)
        c == take_expecting(f2.rest, l3)
        f3 == take_or_empty(c.rest, FieldWidth)
    IN  IF a.ok /\ b.ok /\ c.ok
        THEN [ok |-> TRUE, fields |-> <<f1.field, f2.field, f3.field>>]
        ELSE [ok |-> FALSE, fields |-> <<>>]

ParseThree(fields) ==
    Only({ IF \A i \in 1..3 : v[i].ok
           THEN [ok |-> TRUE, err |-> "none", vals |-> [i \in 1..3 |-> v[i].val]]
           ELSE [ok |-> FALSE, err |-> "ParseFloatError", vals |-> <<>>] :
           v \in {[i \in 1..3 |-> ParseF32(Trim(fields[i]))]} })

ParseRow(line, l1, l2, l3) ==
    Only({ IF t.ok THEN ParseThree(t.fields)
           ELSE [ok |-> FALSE, err |-> "UnexpectedLabel", vals |-> <<>>] :
           t \in {TakeThree(line, l1, l2, l3)} })

(***************************************************************************)
(* What one iteration of the loop of next() does with the line it read:    *)
(* the new state, and whether next() goes on, returns or panics.           *)
(***************************************************************************)
NoItem == [time |-> NoTime]

Continue(st) == [state |-> st, ret |-> "continue", item |-> NoItem, panic |-> "none"]

ReturnSome(st, item) == [state |-> st, ret |-> "Some", item |-> item, panic |-> "none"]

ReturnNone(st) == [state |-> st, ret |-> "None", item |-> NoItem, panic |-> "none"]

Panics(st, cause) == [state |-> st, ret |-> "continue", item |-> NoItem, panic |-> cause]

(***************************************************************************)
(* EphemerisVectorParser::next, one match arm each.                        *)
(***************************************************************************)
\* the start sentinel compared after trimming the line
VecOnWaitingForSoeTrimmed(st, line) ==
    IF Trim(line) = "$$SOE" THEN Continue([tag |-> "WaitingForDate"]) ELSE Continue(st)

VecOnWaitingForSoe(st, line) ==
    IF line = "$$SOE" THEN Continue([tag |-> "WaitingForDate"]) ELSE Continue(st)

\* a line that is no date skipped over
VecOnWaitingForDateSkips(st, line) ==
    IF line = "$$EOE" THEN Continue([tag |-> "End"])
    ELSE Only({ IF time.ok THEN Continue([tag |-> "Date", time |-> time.time])
                ELSE Continue(st) :
                time \in {parse_date_time(line)} })

VecOnWaitingForDate(st, line) ==
    IF line = "$$EOE" THEN Continue([tag |-> "End"])
    ELSE Only({ IF time.ok THEN Continue([tag |-> "Date", time |-> time.time])
                ELSE Panics(st, time.err) :
                time \in {parse_date_time(line)} })

VecOnDate(st, line) ==
    Only({
        IF r.ok
        THEN Continue([tag |-> "Position", time |-> st.time, position |-> r.vals])
        ELSE Panics(st, r.err) :
        r \in {ParseRow(line, " X =", " Y =", " Z =")} })

\* VecOnPosition with the two vectors in each other's place
VecOnPositionSwapped(st, line) ==
    Only({
        IF r.ok
        THEN Continue([tag |-> "Complete", time |-> st.time, position |-> r.vals,
                       velocity |-> st.position])
        ELSE Panics(st, r.err) :
        r \in {ParseRow(line, " VX=", " VY=", " VZ=")} })

\* VecOnPosition yielding the record at the velocity line, without waiting
\* for the fourth line
VecOnPositionYieldsEarly(st, line) ==
    Only({
        IF r.ok
        THEN ReturnSome([tag |-> "WaitingForDate"],
                        [time |-> st.time, position |-> st.position,
                         velocity |-> r.vals])
        ELSE Panics(st, r.err) :
        r \in {ParseRow(line, " VX=", " VY=", " VZ=")} })

VecOnPosition(st, line) ==
    Only({
        IF r.ok
        THEN Continue([tag |-> "Complete", time |-> st.time, position |-> st.position,
                       velocity |-> r.vals])
        ELSE Panics(st, r.err) :
        r \in {ParseRow(line, " VX=", " VY=", " VZ=")} })

\* VecOnComplete going back to WaitingForSoe
VecOnCompleteToSoe(st, line) ==
    ReturnSome([tag |-> "WaitingForSoe"],
               [time |-> st.time, position |-> st.position, velocity |-> st.velocity])

\* the Complete arm looking at its line: "$$EOE" ends the data
VecOnCompleteSeesEoe(st, line) ==
    ReturnSome([tag |-> IF line = "$$EOE" THEN "End" ELSE "WaitingForDate"],
               [time |-> st.time, position |-> st.position, velocity |-> st.velocity])

\* the Complete arm leaving the time of the record it yields in the state
VecOnCompleteKeepsTime(st, line) ==
    ReturnSome([tag |-> "WaitingForDate", time |-> st.time],
               [time |-> st.time, position |-> st.position, velocity |-> st.velocity])

VecOnComplete(st, line) ==
    ReturnSome([tag |-> "WaitingForDate"],
               [time |-> st.time, position |-> st.position, velocity |-> st.velocity])

\* VecOnEnd starting over at a second "$$SOE"
VecOnEndRestarts(st, line) ==
    IF line = "$$SOE" THEN Continue([tag |-> "WaitingForDate"]) ELSE ReturnNone(st)

\* the End arm going on with the loop: the rest of the input is drained
VecOnEndDrains(st, line) == Continue(st)

VecOnEnd(st, line) == ReturnNone(st)

(***************************************************************************)
(* EphemerisOrbitalElementsParser::next, one match arm each.               *)
(***************************************************************************)
ElOnWaitingForSoe(st, line) ==
    IF line = "$$SOE" THEN Continue([tag |-> "WaitingForDate"]) ELSE Continue(st)

\* ElOnWaitingForDate without the test for "$$EOE"
ElOnWaitingForDateNoEoe(st, line) ==
    Only({ IF time.ok THEN Continue([tag |-> "Date", time |-> time.time])
           ELSE Panics(st, time.err) :
           time \in {parse_date_time(line)} })

ElOnWaitingForDate(st, line) ==
    IF line = "$$EOE" THEN Continue([tag |-> "End"])
    ELSE Only({ IF time.ok THEN Continue([tag |-> "Date", time |-> time.time])
                ELSE Panics(st, time.err) :
                time \in {parse_date_time(line)} })

\* the Date arm taking "$$EOE" for the end of the data
ElOnDateEndsOnEoe(st, line) ==
    IF line = "$$EOE" THEN Continue([tag |-> "End"])
    ELSE Only({
        IF r.ok
        THEN Continue([tag |-> "FirstRow", time |-> st.time,
                       eccentricity |-> r.vals[1],
                       periapsis_distance |-> r.vals[2],
                       inclination |-> r.vals[3]])
        ELSE Panics(st, r.err) :
        r \in {ParseRow(line, " EC=", " QR=", " IN=")} })

ElOnDate(st, line) ==
    Only({
        IF r.ok
        THEN Continue([tag |-> "FirstRow", time |-> st.time,
                       eccentricity |-> r.vals[1],
                       periapsis_distance |-> r.vals[2],
                       inclination |-> r.vals[3]])
        ELSE Panics(st, r.err) :
        r \in {ParseRow(line, " EC=", " QR=", " IN=")} })

ElOnFirstRow(st, line) ==
    Only({
        IF r.ok
        THEN Continue([tag |-> "SecondRow", time |-> st.time,
                       eccentricity |-> st.eccentricity,
                       periapsis_distance |-> st.periapsis_distance,
                       inclination |-> st.inclination,
                       longitude_of_ascending_node |-> r.vals[1],
                       argument_of_perifocus |-> r.vals[2],
                       time_of_periapsis |-> r.vals[3]])
        ELSE Panics(st, r.err) :
        r \in {ParseRow(line, " OM=", " W =", " Tp=")} })

\* ElOnSecondRow carrying W where Tp belongs
ElOnSecondRowLosesTp(st, line) ==
    Only({
        IF r.ok
        THEN Continue([tag |-> "ThirdRow", time |-> st.time,
                       eccentricity |-> st.eccentricity,
                       periapsis_distance |-> st.periapsis_distance,
                       inclination |-> st.inclination,
                       longitude_of_ascending_node |-> st.longitude_of_ascending_node,
                       argument_of_perifocus |-> st.argument_of_perifocus,
                       time_of_periapsis |-> st.argument_of_perifocus,
                       mean_motion |-> r.vals[1],
                       mean_anomaly |-> r.vals[2],
                       true_anomaly |-> r.vals[3]])
        ELSE Panics(st, r.err) :
        r \in {ParseRow(line, " N =", " MA=", " TA=")} })

ElOnSecondRow(st, line) ==
    Only({
        IF r.ok
        THEN Continue([tag |-> "ThirdRow", time |-> st.time,
                       eccentricity |-> st.eccentricity,
                       periapsis_distance |-> st.periapsis_distance,
                       inclination |-> st.inclination,
                       longitude_of_ascending_node |-> st.longitude_of_ascending_node,
                       argument_of_perifocus |-> st.argument_of_perifocus,
                       time_of_periapsis |-> st.time_of_periapsis,
                       mean_motion |-> r.vals[1],
                       mean_anomaly |-> r.vals[2],
                       true_anomaly |-> r.vals[3]])
        ELSE Panics(st, r.err) :
        r \in {ParseRow(line, " N =", " MA=", " TA=")} })

\* ElOnThirdRow going back to WaitingForSoe
ElOnThirdRowToSoe(st, line) ==
    Only({
        IF r.ok
        THEN ReturnSome([tag |-> "WaitingForSoe"],
                        [time |-> st.time,
                         eccentricity |-> st.eccentricity,
                         periapsis_distance |-> st.periapsis_distance,
                         inclination |-> st.inclination,
                         longitude_of_ascending_node |-> st.longitude_of_ascending_node,
                         argument_of_perifocus |-> st.argument_of_perifocus,
                         time_of_periapsis |-> st.time_of_periapsis,
                         mean_motion |-> st.mean_motion,
                         mean_anomaly |-> st.mean_anomaly,
                         true_anomaly |-> st.true_anomaly,
                         semi_major_axis |-> r.vals[1],
                         apoapsis_distance |-> r.vals[2],
                         siderral_orbit_period |-> r.vals[3]])
        ELSE Panics(st, r.err) :
        r \in {ParseRow(line, " A =", " AD=", " PR=")} })

ElOnThirdRow(st, line) ==
    Only({
        IF r.ok
        THEN ReturnSome([tag |-> "WaitingForDate"],
                        [time |-> st.time,
                         eccentricity |-> st.eccentricity,
                         periapsis_distance |-> st.periapsis_distance,
                         inclination |-> st.inclination,
                         longitude_of_ascending_node |-> st.longitude_of_ascending_node,
                         argument_of_perifocus |-> st.argument_of_perifocus,
                         time_of_periapsis |-> st.time_of_periapsis,
                         mean_motion |-> st.mean_motion,
                         mean_anomaly |-> st.mean_anomaly,
                         true_anomaly |-> st.true_anomaly,
                         semi_major_axis |-> r.vals[1],
                         apoapsis_distance |-> r.vals[2],
                         siderral_orbit_period |-> r.vals[3]])
        ELSE Panics(st, r.err) :
        r \in {ParseRow(line, " A =", " AD=", " PR=")} })

ElOnEnd(st, line) == ReturnNone(st)

(***************************************************************************)
(* Lines of the Horizons format: dates, vector rows and orbital-element    *)
(* rows of two records each, and lines that are malformed or unusual.      *)
(***************************************************************************)
VDate1 ==
    "2459805.372175926 = A.D. 2022-Aug-13 19:55:56.0000 TDB "

VDate2 ==
    "2459805.455509259 = A.D. 2022-Aug-13 21:55:56.5000 TDB "

VPos1 ==
    " X = 1.870010000000000E+02 Y = 2.484690000000000E+03 Z =-5.861600000000000E+03"

VVel1 ==
    " VX=-3.362660000000000E-01 VY= 1.344100000000000E-02 VZ=-5.030280000000000E-03"

VFourth1 ==
    " LT= 2.124480000000000E-02 RG= 6.369020000000000E+03 RR=-1.506220000000000E-02"

VPos2 ==
    " X = 2.500000000000000E+00 Y =-7.125000000000000E+01 Z = 0.000000000000000E+00"

VVel2 ==
    " VX= 1.000000000000000E+00 VY= 3.200000000000000E-05 VZ=-4.400000000000000E+01"

VFourth2 ==
    " LT= 9.000000000000000E-03 RG= 7.000000000000000E+01 RR= 8.000000000000000E-01"

EDate1 ==
    "2459750.250000000 = A.D. 2022-Jun-19 18:00:00.0000 TDB "

EDate2 ==
    "2459750.375000000 = A.D. 2022-Jun-19 21:00:00.0000 TDB "

ERowA1 ==
    " EC= 1.711790000000000E-02 QR= 1.469890000000000E+08 IN= 3.134750000000000E-03"

ERowB1 ==
    " OM= 1.633900000000000E+02 W = 3.006490000000000E+02 Tp=  2459584.500000000000"

ERowC1 ==
    " N = 1.141320000000000E-05 MA= 1.635520000000000E+02 TA= 1.640960000000000E+02"

ERowD1 ==
    " A = 1.495490000000000E+08 AD= 1.521080000000000E+08 PR= 3.154250000000000E+07"

ERowA2 ==
    " EC= 2.500000000000000E-01 QR= 1.100000000000000E+08 IN= 1.500000000000000E+00"

ERowB2 ==
    " OM= 4.500000000000000E+01 W = 9.000000000000000E+01 Tp=  2459600.250000000000"

ERowC2 ==
    " N = 2.000000000000000E-05 MA= 1.000000000000000E+01 TA= 1.200000000000000E+01"

ERowD2 ==
    " A = 1.300000000000000E+08 AD= 1.400000000000000E+08 PR= 3.000000000000000E+07"

\* " Y =" where " X =" is expected
VPosSwapped ==
    " Y = 1.870010000000000E+02 X = 2.484690000000000E+03 Z =-5.861600000000000E+03"

\* " Y= " where " Y =" is expected
VPosBadSecondLabel ==
    " X = 1.870010000000000E+02 Y=  2.484690000000000E+03 Z =-5.861600000000000E+03"

VPosBadNumber ==
    " X = 1.87001000000000XE+02 Y = 2.484690000000000E+03 Z =-5.861600000000000E+03"

VPosNaN ==
    " X =                   NaN Y = 2.484690000000000E+03 Z =-5.861600000000000E+03"

\* the last field is shorter than 22 characters
VPosShort ==
    " X = 2.500000000000000E+00 Y =-7.125000000000000E+01 Z = 1.5"

\* text after the third field
VPosTrailing ==
    " X = 2.500000000000000E+00 Y =-7.125000000000000E+01 Z = 0.000000000000000E+00 km (ICRF)"

\* a first field of fewer than 22 characters, the second label right after it
VPosNarrow ==
    " X = 2.5E+00 Y =-7.125000000000000E+01 Z = 0.000000000000000E+00"

VVelLower ==
    " vx=-3.362660000000000E-01 vy= 1.344100000000000E-02 vz=-5.030280000000000E-03"

\* " W=" where " W =" is expected
ERowBBadLabel ==
    " OM= 1.633900000000000E+02 W=  3.006490000000000E+02 Tp=  2459584.500000000000"

\* an empty field
ERowABadNumber ==
    " EC= 1.711790000000000E-02 QR=                       IN= 3.134750000000000E-03"

ERowDShort ==
    " A = 1.300000000000000E+08 AD= 1.400000000000000E+08 PR= 3.0E+07"

ERowDTrailing ==
    " A = 1.300000000000000E+08 AD= 1.400000000000000E+08 PR= 3.000000000000000E+07 sec"

DateBadEra ==
    "2459805.372175926 = B.C. 2022-Aug-13 19:55:56.0000 TDB "

DateNoEquals ==
    "2459805.372175926 A.D. 2022-Aug-13 19:55:56.0000 TDB "

DateBadDay ==
    "2459805.372175926 = A.D. 2022-Jun-31 19:55:56.0000 TDB "

DateShort ==
    "2459805.372175926 = A.D. 2022-Aug-13 19:55"

\* a date line whose time has half a second
EDateHalf ==
    "2459750.250005787 = A.D. 2022-Jun-19 18:00:00.5000 TDB "

HeaderLines ==
    {"Ephemeris / API_USER", "!$$SOF", "$$EOE", VPos1}

(***************************************************************************)
(* What the lines say, written down from the text and not through the      *)
(* parser: the time a date line prints and the three numbers a row prints. *)
(***************************************************************************)
Num(neg, m, e) == [kind |-> "num", neg |-> neg, m |-> m, e |-> e]

NaN == [kind |-> "nan", neg |-> FALSE, m |-> 0, e |-> 0]

Time(y, mo, d, h, mi, s) ==
    [year |-> y, month |-> mo, day |-> d, hour |-> h, minute |-> mi,
     second |-> s, nano |-> 0]

DateFixtures ==
    { [text |-> VDate1, time |-> Time(2022, 8, 13, 19, 55, 56), frac |-> 0],
      [text |-> VDate2, time |-> Time(2022, 8, 13, 21, 55, 56), frac |-> 0],
      [text |-> EDate1, time |-> Time(2022, 6, 19, 18, 0, 0), frac |-> 0],
      [text |-> EDate2, time |-> Time(2022, 6, 19, 21, 0, 0), frac |-> 0],
      [text |-> EDateHalf, time |-> Time(2022, 6, 19, 18, 0, 0), frac |-> 500000000] }

RowFixtures ==
    { [text |-> VPos1, row |-> "X",
       vals |-> <<Num(FALSE, 187001, -3), Num(FALSE, 248469, -2), Num(TRUE, 58616, -1)>>],
      [text |-> VPos2, row |-> "X",
       vals |-> <<Num(FALSE, 25, -1), Num(TRUE, 7125, -2), Num(FALSE, 0, 0)>>],
      [text |-> VPosNaN, row |-> "X",
       vals |-> <<NaN, Num(FALSE, 248469, -2), Num(TRUE, 58616, -1)>>],
      [text |-> VPosShort, row |-> "X",
       vals |-> <<Num(FALSE, 25, -1), Num(TRUE, 7125, -2), Num(FALSE, 15, -1)>>],
      [text |-> VPosTrailing, row |-> "X",
       vals |-> <<Num(FALSE, 25, -1), Num(TRUE, 7125, -2), Num(FALSE, 0, 0)>>],
      [text |-> VVel1, row |-> "VX",
       vals |-> <<Num(TRUE, 336266, -6), Num(FALSE, 13441, -6), Num(TRUE, 503028, -8)>>],
      [text |-> VVel2, row |-> "VX",
       vals |-> <<Num(FALSE, 1, 0), Num(FALSE, 32, -6), Num(TRUE, 44, 0)>>],
      [text |-> ERowA1, row |-> "EC",
       vals |-> <<Num(FALSE, 171179, -7), Num(FALSE, 146989, 3), Num(FALSE, 313475, -8)>>],
      [text |-> ERowA2, row |-> "EC",
       vals |-> <<Num(FALSE, 25, -2), Num(FALSE, 11, 7), Num(FALSE, 15, -1)>>],
      [text |-> ERowB1, row |-> "OM",
       vals |-> <<Num(FALSE, 16339, -2), Num(FALSE, 300649, -3), Num(FALSE, 24595845, -1)>>],
      [text |-> ERowB2, row |-> "OM",
       vals |-> <<Num(FALSE, 45, 0), Num(FALSE, 9, 1), Num(FALSE, 245960025, -2)>>],
      [text |-> ERowC1, row |-> "N",
       vals |-> <<Num(FALSE, 114132, -10), Num(FALSE, 163552, -3), Num(FALSE, 164096, -3)>>],
      [text |-> ERowC2, row |-> "N",
       vals |-> <<Num(FALSE, 2, -5), Num(FALSE, 1, 1), Num(FALSE, 12, 0)>>],
      [text |-> ERowD1, row |-> "A",
       vals |-> <<Num(FALSE, 149549, 3), Num(FALSE, 152108, 3), Num(FALSE, 315425, 2)>>],
      [text |-> ERowD2, row |-> "A",
       vals |-> <<Num(FALSE, 13, 7), Num(FALSE, 14, 7), Num(FALSE, 3, 7)>>],
      [text |-> ERowDShort, row |-> "A",
       vals |-> <<Num(FALSE, 13, 7), Num(FALSE, 14, 7), Num(FALSE, 3, 7)>>],
      [text |-> ERowDTrailing, row |-> "A",
       vals |-> <<Num(FALSE, 13, 7), Num(FALSE, 14, 7), Num(FALSE, 3, 7)>>] }

IsDate(line) == \E f \in DateFixtures : f.text = line

PrintedTime(line) == (CHOOSE f \in DateFixtures : f.text = line).time

\* the printed fraction of a second, in nanoseconds
PrintedFraction(line) == (CHOOSE f \in DateFixtures : f.text = line).frac

IsRow(line, row) == \E f \in RowFixtures : f.text = line /\ f.row = row

Printed(line) == (CHOOSE f \in RowFixtures : f.text = line).vals

(***************************************************************************)
(* The grammar parser, parse(input), built from chumsky combinators.  A    *)
(* combinator is an operator of the text s and the index i of the next     *)
(* character; it gives                                                     *)
(*   tag "ok":    the index after what it consumed and its output v,       *)
(*   tag "err":   the error: how far the parser got (at) and the byte      *)
(*                offset where the error's span starts,                    *)
(*   tag "panic": the cause, when a closure of the grammar panicked.       *)
(* No recovery strategy is attached to any combinator: a failed parse      *)
(* carries one error, the one met furthest into the text.                  *)
(***************************************************************************)
\* the text the lines come from: text.lines() gives the lines back
RECURSIVE TextOf(_)
TextOf(ls) ==
    IF ls = <<>> THEN ""
    ELSE IF Len(ls) = 1 THEN ls[1]
    ELSE ls[1] \o "\n" \o TextOf(Tail(ls))

NoErr == [at |-> 0, offset |-> 0]

POk(i, v) == [tag |-> "ok", i |-> i, v |-> v, err |-> NoErr, panic |-> "none"]

PErr(at, offset) ==
    [tag |-> "err", i |-> 0, v |-> <<>>, err |-> [at |-> at, offset |-> offset],
     panic |-> "none"]

PPanic(cause) == [tag |-> "panic", i |-> 0, v |-> <<>>, err |-> NoErr, panic |-> cause]

\* of two errors the one met further into the text is kept
MergeAlts(e1, e2) == IF e2.at > e1.at THEN e2 ELSE e1

\* char::is_whitespace, for the characters of the texts modelled
IsWhitespace(c) == c \in {" ", "\n"}

\* padded(): the index of the first character at or after i that is not
\* white space
RECURSIVE SkipWhitespace(_, _)
SkipWhitespace(s, i) ==
    IF i <= Len(s) /\ IsWhitespace(CharAt(s, i)) THEN SkipWhitespace(s, i + 1) ELSE i

\* how many characters of lit the text has at i, from the first on
RECURSIVE MatchLen(_, _, _, _)
MatchLen(lit, s, i, k) ==
    IF k < Len(lit) /\ i + k <= Len(s) /\ CharAt(s, i + k) = CharAt(lit, k + 1)
    THEN MatchLen(lit, s, i, k + 1)
    ELSE k

\* just(lit): the error is at the first character that differs
just(lit, s, i) ==
    Only({ IF k = Len(lit) THEN POk(i + k, lit) ELSE PErr(i + k, i + k - 1) :
           k \in {MatchLen(lit, s, i, 0)} })

\* just(lit).padded()
just_padded(lit, s, i) ==
    Only({ IF r.tag = "ok" THEN POk(SkipWhitespace(s, r.i), lit) ELSE r :
           r \in {just(lit, s, SkipWhitespace(s, i))} })

\* the characters float_parser's filter lets through
FloatChars == Digits \cup {".", "E", "-", "+"}

\* filter(..).repeated(): the index after the run of such characters
RECURSIVE ScanFloat(_, _)
ScanFloat(s, i) ==
    IF i <= Len(s) /\ CharAt(s, i) \in FloatChars THEN ScanFloat(s, i + 1) ELSE i

\* whether str::parse::<f64> accepts a text made of FloatChars: a sign,
\* digits with an optional point, an optional exponent
FloatSyntax(t) ==
    LET body == IF t # "" /\ CharAt(t, 1) \in {"+", "-"} THEN Tail(t) ELSE t
        i1 == ScanDigits(body, 1)
        i2 == IF i1 <= Len(body) /\ CharAt(body, i1) = "."
              THEN ScanDigits(body, i1 + 1) ELSE i1
        ndigits == (i1 - 1) + (IF i2 > i1 THEN i2 - i1 - 1 ELSE 0)
    IN  /\ ndigits > 0
        /\ \/ i2 = Len(body) + 1
           \/ CharAt(body, i2) = "E" /\ ParseExponent(Drop(body, i2)).ok

\* float_parser::<f64>(): the value is not used by the grammar
float_parser_f64(s, i) ==
    Only({ IF FloatSyntax(SubSeq(s, i, j - 1)) THEN POk(j, <<>>) ELSE PErr(j, i - 1) :
           j \in {ScanFloat(s, i)} })

\* float_parser::<f32>()
float_parser_f32(s, i) ==
    Only({ Only({ IF f.ok THEN POk(j, f.val) ELSE PErr(j, i - 1) :
                  f \in {ParseF32(SubSeq(s, i, j - 1))} }) :
           j \in {ScanFloat(s, i)} })

\* parameter_parser(name): the name, "=" between white space, the number
parameter_parser(name, s, i) ==
    Only({ IF n.tag # "ok" THEN n
           ELSE Only({ IF eq.tag # "ok" THEN eq ELSE float_parser_f32(s, eq.i) :
                       eq \in {just_padded("=", s, n.i)} }) :
           n \in {just(name, s, i)} })

\* NaiveDateTime::parse_from_str(s, "%Y-%b-%d %H:%M:%S.%f"): the date and
\* time as in the seconds-only format, a point, and %f, which reads one to
\* nine digits as a number of nanoseconds
ParseNaiveFraction(t) ==
    IF Len(t) >= 22 /\ Len(t) <= 30 /\ CharAt(t, 21) = "."
       /\ AllDigits(SubSeq(t, 22, Len(t)))
    THEN Only({ IF r.ok
                THEN [ok |-> TRUE,
                      time |-> [r.time EXCEPT !.nano = DecVal(SubSeq(t, 22, Len(t)))]]
                ELSE r :
                r \in {ParseNaive(SubSeq(t, 1, 20))} })
    ELSE [ok |-> FALSE, time |-> NoTime]

\* take_until(just(" TDB")): the index of the first " TDB" at or after i,
\* 0 when the text has none
FindTdb(s, i) ==
    Only({ IF js = {} THEN 0 ELSE CHOOSE j \in js : \A k \in js : j <= k :
           js \in {{ j \in i..(Len(s) - 3) : SubSeq(s, j, j + 3) = " TDB" }} })

\* date_time_parser(): "A.D. ", the text up to " TDB", and the closure that
\* parses it and unwraps the result
date_time_parser(s, i) ==
    Only({ IF era.tag # "ok" THEN era
           ELSE Only({ IF j = 0 THEN PErr(Len(s) + 1, Len(s))
                       ELSE Only({ IF d.ok THEN POk(j + 4, d.time)
                                   ELSE PPanic("DateParseError") :
                                   d \in {ParseNaiveFraction(SubSeq(s, era.i, j - 1))} }) :
                       j \in {FindTdb(s, era.i)} }) :
           era \in {just("A.D. ", s, i)} })

\* the twelve parameters of a record, in the order of the grammar
ItemLabels == <<"EC", "QR", "IN", "OM", "W", "Tp", "N", "MA", "TA", "A", "AD", "PR">>

\* parameter_parser(..).padded() for each label but the last, which is not
\* padded; vals are the values of the parameters before the k-th
RECURSIVE ItemParameters(_, _, _, _)
ItemParameters(s, i, k, vals) ==
    Only({ IF p.tag # "ok" THEN p
           ELSE IF k = Len(ItemLabels) THEN POk(p.i, Append(vals, p.v))
           ELSE ItemParameters(s, SkipWhitespace(s, p.i), k + 1, Append(vals, p.v)) :
           p \in {parameter_parser(ItemLabels[k], s, i)} })

\* the closure of map(): the record of the time and the twelve values
ItemOf(time, v) ==
    [time |-> time,
     eccentricity |-> v[1],
     periapsis_distance |-> v[2],
     inclination |-> v[3],
     longitude_of_ascending_node |-> v[4],
     argument_of_perifocus |-> v[5],
     time_of_periapsis |-> v[6],
     mean_motion |-> v[7],
     mean_anomaly |-> v[8],
     true_anomaly |-> v[9],
     semi_major_axis |-> v[10],
     apoapsis_distance |-> v[11],
     siderral_orbit_period |-> v[12]]

\* the record from the date on: date_time_parser().padded(), the parameters
ItemFromDate(s, i) ==
    Only({ IF dt.tag # "ok" THEN dt
           ELSE Only({ IF ps.tag # "ok" THEN ps ELSE POk(ps.i, ItemOf(dt.v, ps.v)) :
                       ps \in {ItemParameters(s, SkipWhitespace(s, dt.i), 1, <<>>)} }) :
           dt \in {date_time_parser(s, SkipWhitespace(s, i))} })

\* EphemerisOrbitalElementsItem::parser(): the Julian day, "=" between white
\* space, and the rest
ItemParser(s, i) ==
    Only({ IF jd.tag # "ok" THEN jd
           ELSE Only({ IF eq.tag # "ok" THEN eq ELSE ItemFromDate(s, eq.i) :
                       eq \in {just_padded("=", s, jd.i)} }) :
           jd \in {float_parser_f64(s, i)} })

\* text::newline(), for the line ends of the texts modelled
newline(s, i) ==
    IF i <= Len(s) /\ CharAt(s, i) = "\n" THEN POk(i + 1, <<>>) ELSE PErr(i, i - 1)

\* parser().then_ignore(text::newline())
ItemLine(s, i) ==
    Only({ IF it.tag # "ok" THEN it
           ELSE Only({ IF nl.tag # "ok" THEN nl ELSE POk(nl.i, it.v) :
                       nl \in {newline(s, it.i)} }) :
           it \in {ItemParser(s, i)} })

\* repeated(): records are taken until one fails; the text is then where
\* that one started, and its error is remembered (err)
RECURSIVE Repeated(_, _, _)
Repeated(s, i, items) ==
    Only({ IF r.tag = "ok" THEN Repeated(s, r.i, Append(items, r.v))
           ELSE IF r.tag = "panic" THEN r
           ELSE [tag |-> "ok", i |-> i, v |-> items, err |-> r.err, panic |-> "none"] :
           r \in {ItemLine(s, i)} })

\* filter(|c| *c != '$').repeated(): the index of the first "$", or of the
\* end of the text
SkipHeader(s) ==
    Only({ IF js = {} THEN Len(s) + 1 ELSE CHOOSE j \in js : \A k \in js : j <= k :
           js \in {{ j \in 1..Len(s) : CharAt(s, j) = "$" }} })

\* delimited_by(just("$$SOE").padded(), just("$$EOE")) around the records
Delimited(s, i) ==
    Only({ IF soe.tag # "ok" THEN soe
           ELSE Only({ IF rs.tag # "ok" THEN rs
                       ELSE Only({ IF eoe.tag = "ok" THEN POk(eoe.i, rs.v)
                                   ELSE PErr(MergeAlts(rs.err, eoe.err).at,
                                             MergeAlts(rs.err, eoe.err).offset) :
                                   eoe \in {just("$$EOE", s, rs.i)} }) :
                       rs \in {Repeated(s, soe.i, <<>>)} }) :
           soe \in {just_padded("$$SOE", s, i)} })

\* what parse(input) does: it returns the records, or it panics, either in
\* the closure of date_time_parser or, on Err(errors), in unwrap() after
\* report_err has printed the errors
ParseResult(outcome, items, errors, cause) ==
    [run |-> TRUE, outcome |-> outcome, items |-> items, errors |-> errors,
     panic |-> cause]

\* parse with end() right after "$$EOE": text left over is an error
parseToTheEnd(input) ==
    Only({ IF r.tag = "ok" /\ r.i > Len(input) THEN ParseResult("ok", r.v, <<>>, "none")
           ELSE IF r.tag = "ok" THEN ParseResult("panic", <<>>, <<r.i - 1>>, "UnwrapOnErr")
           ELSE IF r.tag = "panic" THEN ParseResult("panic", <<>>, <<>>, r.panic)
           ELSE ParseResult("panic", <<>>, <<r.err.offset>>, "UnwrapOnErr") :
           r \in {Delimited(input, SkipHeader(input))} })

\* any().repeated() and end() take what follows "$$EOE" and cannot fail
parse(input) ==
    Only({ IF r.tag = "ok" THEN ParseResult("ok", r.v, <<>>, "none")
           ELSE IF r.tag = "panic" THEN ParseResult("panic", <<>>, <<>>, r.panic)
           ELSE ParseResult("panic", <<>>, <<r.err.offset>>, "UnwrapOnErr") :
           r \in {Delimited(input, SkipHeader(input))} })

(***************************************************************************)
(* The inputs: documents of the format, and the same documents cut short   *)
(* or with one line replaced or removed.                                   *)
(***************************************************************************)
Kinds == {"vector", "elements"}

Variants == {1, 2}

RecordLines(kind, v) ==
    IF kind = "vector"
    THEN IF v = 1 THEN <<VDate1, VPos1, VVel1, VFourth1>>
                  ELSE <<VDate2, VPos2, VVel2, VFourth2>>
    ELSE IF v = 1 THEN <<EDate1, ERowA1, ERowB1, ERowC1, ERowD1>>
                  ELSE <<EDate2, ERowA2, ERowB2, ERowC2, ERowD2>>

RECURSIVE BodyLines(_, _)
BodyLines(kind, vs) ==
    IF vs = <<>> THEN <<>>
    ELSE RecordLines(kind, Head(vs)) \o BodyLines(kind, Tail(vs))

Bodies == UNION {[1..n -> Variants] : n \in 0..MaxRecords}

Headers == UNION {[1..n -> HeaderLines] : n \in 0..MaxHeader}

\* what may follow "$$EOE": nothing, a line of text, a second block, or the
\* malformed lines of a record and a second "$$EOE"
Trailers(kind) ==
    { <<>>, <<"end of data">>,
      <<"$$SOE">> \o RecordLines(kind, 2) \o <<"$$EOE">>,
      <<DateBadDay, IF kind = "vector" THEN VPosBadNumber ELSE ERowABadNumber,
        "$$EOE">> }

Block(kind, vs) == <<"$$SOE">> \o BodyLines(kind, vs) \o <<"$$EOE">>

Documents(kind) ==
    { h \o Block(kind, vs) \o t : h \in Headers, vs \in Bodies, t \in Trailers(kind) }

\* lines that take the place of a line of a document
OtherLines(kind) ==
    { "", "$$SOE", "$$EOE", "$$EOE ", DateBadEra, DateNoEquals, DateBadDay, DateShort } \cup
    ( IF kind = "vector"
      THEN { VDate2, VPos2, VVel2, ERowA1,
             VPosSwapped, VPosBadSecondLabel, VPosBadNumber, VPosNaN, VPosShort,
             VPosTrailing, VPosNarrow, VVelLower }
      ELSE { EDate2, ERowA2, ERowB2, ERowC2, ERowD2, VPos1,
             ERowBBadLabel, ERowABadNumber, ERowDShort, ERowDTrailing, EDateHalf } )

Truncated(doc) == { SubSeq(doc, 1, n) : n \in 0..(Len(doc) - 1) }

Replaced(doc, kind) ==
    { [doc EXCEPT ![i] = l] : i \in 1..Len(doc), l \in OtherLines(kind) }

Removed(doc) ==
    { SubSeq(doc, 1, i - 1) \o SubSeq(doc, i + 1, Len(doc)) : i \in 1..Len(doc) }

Damaged(kind) ==
    UNION { Truncated(d) \cup Replaced(d, kind) \cup Removed(d) :
            d \in { <<"Ephemeris / API_USER">> \o Block(kind, vs) : vs \in Bodies } }

\* an element document with a wrong label in its first record and a field
\* without a number in its second
TwiceDamaged ==
    { <<"Ephemeris / API_USER", "$$SOE",
        EDate1, ERowA1, ERowA2, ERowC1, ERowD1,
        EDate2, ERowABadNumber, ERowB2, ERowC2, ERowD2,
        "$$EOE">> }

\* documents with a line that is "$$SOE" but for a space, before the start
\* sentinel or in its place
NearSentinel(kind) ==
    UNION { { <<near>> \o Block(kind, vs),
              <<near>> \o BodyLines(kind, vs) \o <<"$$EOE">> } :
            near \in {" $$SOE", "$$SOE "}, vs \in Bodies }

\* vector documents whose last record has lost its fourth line
MissingFourth(kind) ==
    IF kind = "vector"
    THEN { <<"$$SOE">> \o SubSeq(BodyLines(kind, vs), 1, Len(BodyLines(kind, vs)) - 1)
           \o <<"$$EOE">> \o t :
           vs \in Bodies \ {<<>>}, t \in Trailers(kind) }
    ELSE {}

Inputs(kind) ==
    Documents(kind) \cup Damaged(kind) \cup NearSentinel(kind) \cup
    MissingFourth(kind) \cup
    (IF kind = "elements" THEN TwiceDamaged ELSE {})

(***************************************************************************)
(* Requests: values, and how they are printed into request parameters.     *)
(***************************************************************************)
\* Option<T>
None == [some |-> FALSE]

Some(v) == [some |-> TRUE, v |-> v]

\* Display of an unsigned integer: its decimal digits, no padding
RECURSIVE DisplayUnsigned(_)
DisplayUnsigned(n) ==
    IF n < 10 THEN CharAt("0123456789", n + 1)
    ELSE DisplayUnsigned(n \div 10) \o CharAt("0123456789", (n % 10) + 1)

\* i32::to_string, u32::to_string, u8::to_string and "{}" of an integer
to_string(n) == IF n < 0 THEN "-" \o DisplayUnsigned(-n) ELSE DisplayUnsigned(n)

\* a number of a date, padded with zeros to its width (%Y: 4, the others: 2)
RECURSIVE ZeroPadded(_, _)
ZeroPadded(n, width) ==
    IF Len(DisplayUnsigned(n)) >= width THEN DisplayUnsigned(n)
    ELSE "0" \o SubSeq(ZeroPadded(n, width - 1), 1, width - 1)

\* %T: %H:%M:%S
FormatT(t) ==
    ZeroPadded(t.hour, 2) \o ":" \o ZeroPadded(t.minute, 2) \o ":" \o ZeroPadded(t.second, 2)

\* DateTime::format("%Y-%b-%d-%T")
FormatYbdT(t) ==
    ZeroPadded(t.year, 4) \o "-" \o MonthNames[t.month] \o "-" \o
    ZeroPadded(t.day, 2) \o "-" \o FormatT(t)

\* DateTime::format("%Y-%m-%d %T")
FormatYmdT(t) ==
    ZeroPadded(t.year, 4) \o "-" \o ZeroPadded(t.month, 2) \o "-" \o
    ZeroPadded(t.day, 2) \o " " \o FormatT(t)

(***************************************************************************)
(* The command builder (command.rs).                                       *)
(***************************************************************************)
\* enum CommandType
CommandTypes == {"MajorBody", "Observer", "Vector", "OrbitalElement"}

\* CommandBuilder::from_id with the center left at the integer's default
from_idZeroCenter(id) ==
    [id |-> id, center |-> 0, start |-> None, end |-> None, time_step |-> None]

\* CommandBuilder::from_id
from_id(id) ==
    [id |-> id,
     center |-> 10,
     start |-> None,
     end |-> None,
     time_step |-> None]

\* build_with_type building a command for the Observer type as well
build_with_typeObserverToo(self, command_type) ==
    IF command_type \in {"Vector", "Observer"}
    THEN [ok |-> TRUE,
          command |-> [id |-> self.id, center |-> self.center,
                       start |-> self.start, end |-> self.end,
                       time_step |-> self.time_step, command |-> "VectorCommand"]]
    ELSE [ok |-> FALSE, err |-> "CommandTypeError"]

\* CommandBuilder::build_with_type: Ok(Command<VectorCommand>) or
\* Err(CommandTypeError)
build_with_type(self, command_type) ==
    IF command_type = "Vector"
    THEN [ok |-> TRUE,
          command |-> [id |-> self.id,
                       center |-> self.center,
                       start |-> self.start,
                       end |-> self.end,
                       time_step |-> self.time_step,
                       command |-> "VectorCommand"]]
    ELSE [ok |-> FALSE, err |-> "CommandTypeError"]

\* with_id starting over from the defaults of from_id
with_idFromDefaults(self, id) == from_id(id)

with_id(self, id) ==
    [id |-> id, center |-> self.center, start |-> self.start,
     end |-> self.end, time_step |-> self.time_step]

with_start(self, start) ==
    [id |-> self.id, center |-> self.center, start |-> Some(start),
     end |-> self.end, time_step |-> self.time_step]

with_end(self, end) ==
    [id |-> self.id, center |-> self.center, start |-> self.start,
     end |-> Some(end), time_step |-> self.time_step]

with_range(self, start, end) ==
    [id |-> self.id, center |-> self.center, start |-> Some(start),
     end |-> Some(end), time_step |-> self.time_step]

with_center(self, center) ==
    [id |-> self.id, center |-> center, start |-> self.start,
     end |-> self.end, time_step |-> self.time_step]

\* EphemerisCommand for VectorCommand
VectorCommand_get_parameters == << <<"EPHEM_TYPE", "VECTORS">> >>

\* QueryCommand for Command<VectorCommand>: the pairs, in the order pushed
Command_get_parameters(self) ==
    << <<"COMMAND", to_string(self.id)>>,
       <<"CENTER", "500@" \o to_string(self.center)>> >>
    \o (IF self.start.some
        THEN << <<"START_TIME", FormatYbdT(self.start.v)>> >> ELSE <<>>)
    \o (IF self.end.some
        THEN << <<"STOP_TIME", FormatYbdT(self.end.v)>> >> ELSE <<>>)
    \o VectorCommand_get_parameters

(***************************************************************************)
(* The query and its parameters (command/mod.rs, command/parameters.rs).   *)
(***************************************************************************)
\* QueryParameter for QueryFormat
QueryFormat_get_parameters(self) ==
    << <<"format", IF self = "Json" THEN "json" ELSE "text">> >>

\* QueryParameter for Command
Command_parameter(self) ==
    << <<"COMMAND",
         CASE self.tag = "MajorBody" -> "MB"
           [] self.tag = "Id" -> to_string(self.id)
           [] self.tag = "Name" -> self.name>> >>

\* QueryParameter for CommandType
CommandType_get_parameters(self) ==
    IF self.some THEN Command_parameter(self.v) ELSE <<>>

\* QueryParameter for ObjData
ObjData_get_parameters(self) ==
    << <<"OBJ_DATA", IF self THEN "YES" ELSE "NO">> >>

\* QueryParameter for MakeEphem
MakeEphem_get_parameters(self) ==
    << <<"MAKE_EPHEM", IF self THEN "YES" ELSE "NO">> >>

\* QueryParameter for EmailAddressType
EmailAddressType_get_parameters(self) ==
    IF self.some THEN << <<"EMAIL_ADDR", self.v>> >> ELSE <<>>

\* QueryParameter for Center
Center_get_parameters(self) ==
    << <<"CENTER", IF self.some THEN "500@" \o to_string(self.v) ELSE "500">> >>

\* QueryParameter for StartTime
StartTime_get_parameters(self) ==
    IF self.some THEN << <<"START_TIME", FormatYmdT(self.v)>> >> ELSE <<>>

\* QueryParameter for StopTime
StopTime_get_parameters(self) ==
    IF self.some THEN << <<"STOP_TIME", FormatYmdT(self.v)>> >> ELSE <<>>

\* QueryParameter for StepSize
StepSize_get_parameters(self) ==
    << <<"STEP_SIZE",
         CASE self.unit = "Days" -> to_string(self.n) \o " d"
           [] self.unit = "Hours" -> to_string(self.n) \o " h"
           [] self.unit = "Minutes" -> to_string(self.n) \o " m"
           [] self.unit = "Years" -> to_string(self.n) \o " y"
           [] self.unit = "Months" -> to_string(self.n) \o " mo"
           [] self.unit = "Unitless" -> to_string(self.n)>> >>

\* one quantity as text: the digits of a Select, the character of a Macro
QuantityText(quantity) ==
    IF quantity.tag = "Macro" THEN quantity.c ELSE to_string(quantity.n)

\* .reduce(|acc, e| acc + "," + &e) over a list that is not empty
RECURSIVE ReduceComma(_)
ReduceComma(qs) ==
    IF Len(qs) = 1 THEN QuantityText(qs[1])
    ELSE ReduceComma(SubSeq(qs, 1, Len(qs) - 1)) \o "," \o QuantityText(qs[Len(qs)])

\* QueryParameter for Quantities
Quantities_get_parameters(self) ==
    IF self = <<>> THEN <<>> ELSE << <<"QUANTITIES", ReduceComma(self)>> >>

\* QueryParameter for ObserverArgs: center, start and stop time, quantities;
\* the coord and step_size lines are commented out
ObserverArgs_get_parameters(self) ==
    Center_get_parameters(self.center)
    \o StartTime_get_parameters(self.start_time)
    \o StopTime_get_parameters(self.stop_time)
    \o Quantities_get_parameters(self.quantities)

\* the result of a call: the pairs, or the panic that ended it
Pairs(ps) == [ok |-> TRUE, pairs |-> ps, panic |-> "none"]

Todo == [ok |-> FALSE, pairs |-> <<>>, panic |-> "todo"]

\* QueryParameter for EphemerisType; the arguments of every type other than
\* Observer are todo!()
EphemerisType_get_parameters(self) ==
    IF self.tag = "Observer"
    THEN Pairs(<< <<"EPHEM_TYPE", "OBSERVER">> >> \o ObserverArgs_get_parameters(self.args))
    ELSE Todo

\* QueryParameter for Query
Query_get_parameters(self) ==
    IF EphemerisType_get_parameters(self.ephem_type).ok
    THEN Pairs(QueryFormat_get_parameters(self.format)
               \o CommandType_get_parameters(self.command)
               \o ObjData_get_parameters(self.obj_data)
               \o MakeEphem_get_parameters(self.make_ephem)
               \o EphemerisType_get_parameters(self.ephem_type).pairs
               \o EmailAddressType_get_parameters(self.email_addr))
    ELSE Todo

\* ObserverArgs::default()
ObserverArgsDefault ==
    [center |-> None, start_time |-> None, stop_time |-> None,
     step_size |-> [unit |-> "Minutes", n |-> 60], quantities |-> <<>>]

\* EphemerisType::default()
EphemerisTypeDefault == [tag |-> "Observer", args |-> ObserverArgsDefault]

\* Query::default()
QueryDefault ==
    [format |-> "Json", command |-> None, obj_data |-> TRUE,
     make_ephem |-> TRUE, ephem_type |-> EphemerisTypeDefault,
     email_addr |-> None]

\* how many times the character c occurs in s: s.split(c).count() is one more
RECURSIVE CountOf(_, _)
CountOf(s, c) ==
    IF s = "" THEN 0
    ELSE (IF CharAt(s, 1) = c THEN 1 ELSE 0) + CountOf(Tail(s), c)

\* the text after the last "@": email_addr.split("@").last()
RECURSIVE AfterLastAt(_)
AfterLastAt(s) ==
    IF CountOf(s, "@") = 0 THEN s ELSE AfterLastAt(Tail(s))

\* EmailAddressType::new taking a domain of two parts for a valid one
EmailAddressType_newTwoParts(email_addr) ==
    IF CountOf(email_addr, "@") + 1 # 2
    THEN [ok |-> FALSE, panic |-> "Email address does not contain @"]
    ELSE IF ~(CountOf(AfterLastAt(email_addr), ".") + 1 >= 2)
    THEN [ok |-> FALSE, panic |-> "Email address does not contain valid domain"]
    ELSE [ok |-> TRUE, v |-> Some(email_addr)]

\* EmailAddressType::new: the two assertions, then Self(Some(email_addr))
EmailAddressType_new(email_addr) ==
    IF CountOf(email_addr, "@") + 1 # 2
    THEN [ok |-> FALSE, panic |-> "Email address does not contain @"]
    ELSE IF ~(CountOf(AfterLastAt(email_addr), ".") + 1 > 2)
    THEN [ok |-> FALSE, panic |-> "Email address does not contain valid domain"]
    ELSE [ok |-> TRUE, v |-> Some(email_addr)]

(***************************************************************************)
(* The state: one parser, its input iterator and what its caller has got.  *)
(***************************************************************************)
VARIABLES
    kind,       \* which parser was constructed: "vector" or "elements"
    lines,      \* the lines the input iterator was created over
    pos,        \* how many of them self.input.next() has handed out
    state,      \* self.state
    out,        \* the records the caller has been given, in order
    pc,         \* "idle", "running" (inside next()) or "panicked"
    ret,        \* what the last next() returned: "Some", "None", "-" before
    panic,      \* the cause of the panic, "none" without one
    nones,      \* how many calls have returned None
    reads,      \* lines read by the current (or last) call of next()
    seen,       \* the last loop iteration of the current (or last) call: the
                \* state tag it matched on, the line it read, or eof
    gram,       \* what parse(text) did on the text of the same lines
    inst,       \* two parsers side by side, each over its own input
    builder,    \* the CommandBuilder the caller holds
    chain,      \* the setters applied to it since from_id, in order
    calls,      \* those calls: the receiver, the fields named with the values
                \* given for them, and the builder returned
    built,      \* what the last build_with_type returned
    params,     \* what get_parameters gave for the command built
    query,      \* the Query the caller holds
    qparams,    \* what Query::get_parameters gave for it
    qpc,        \* "idle", or "panicked" once a call on the query panicked
    qpanic,     \* the cause of that panic, "none" without one
    qparsed,    \* what Query::parse gave for it
    retry       \* a call of query_with_retries: where it stands, what it has
                \* done so far and what it returned

parserVars == <<kind, lines, pos, state, out, pc, ret, panic, nones, reads,
                seen, gram, inst>>

builderVars == <<builder, chain, calls, built, params>>

queryVars == <<query, qparams, qpc, qpanic, qparsed>>

retryVars == <<retry>>

commandVars == <<builderVars, queryVars, retryVars>>

vars == <<parserVars, commandVars>>

\* from_id has not been called
NoBuilder == [made |-> FALSE]

\* build_with_type has not been called on the builder held
NotBuilt == [called |-> FALSE]

\* get_parameters has not been called on the value held
NotAsked == [run |-> FALSE]

\* query_with_retries has not been called
NotCalled == [pc |-> "-"]

\* no request is being put together
CommandsIdle ==
    /\ builder = NoBuilder
    /\ chain = <<>>
    /\ calls = <<>>
    /\ built = NotBuilt
    /\ params = NotAsked
    /\ query = QueryDefault
    /\ qparams = NotAsked
    /\ qpc = "idle"
    /\ qpanic = "none"
    /\ qparsed = NotAsked
    /\ retry = NotCalled

NotSeen == [tag |-> "-", line |-> "", eof |-> FALSE]

\* parse(text) has not been called
NotParsed == [run |-> FALSE]

\* EphemerisVectorParser::parse / EphemerisOrbitalElementsParser::parse
Init ==
    /\ kind \in Kinds
    /\ lines \in Inputs(kind)
    /\ pos = 0
    /\ state = [tag |-> "WaitingForSoe"]
    /\ out = <<>>
    /\ pc = "idle"
    /\ ret = "-"
    /\ panic = "none"
    /\ nones = 0
    /\ reads = 0
    /\ seen = NotSeen
    /\ gram = NotParsed
    /\ inst = <<>>
    /\ CommandsIdle

\* the caller calls next()
Call ==
    /\ pc = "idle"
    /\ nones <= MaxExtraCalls
    /\ pc' = "running"
    /\ reads' = 0
    /\ seen' = NotSeen
    /\ UNCHANGED <<kind, lines, pos, state, out, ret, panic, nones, gram, inst, commandVars>>

\* one iteration of the loop: the line is taken from the input, then the
\* match arm acts on it
Iterate(o) ==
    /\ pos' = pos + 1
    /\ reads' = reads + 1
    /\ seen' = [tag |-> state.tag, line |-> lines[pos + 1], eof |-> FALSE]
    /\ UNCHANGED <<kind, lines, gram, inst, commandVars>>
    /\ IF o.panic # "none"
       THEN /\ pc' = "panicked"
            /\ panic' = o.panic
            /\ UNCHANGED <<state, out, ret, nones>>
       ELSE /\ state' = o.state
            /\ panic' = panic
            /\ out' = IF o.ret = "Some" THEN Append(out, o.item) ELSE out
            /\ ret' = IF o.ret = "continue" THEN ret ELSE o.ret
            /\ pc' = IF o.ret = "continue" THEN "running" ELSE "idle"
            /\ nones' = IF o.ret = "None" THEN nones + 1 ELSE nones

\* self.input.next() is None: next() returns None
\* Drained handing out what has been assembled so far
DrainedFlushesPartial ==
    /\ pc' = "idle"
    /\ ret' = IF state.tag \in {"WaitingForSoe", "WaitingForDate"} THEN "None" ELSE "Some"
    /\ out' = IF state.tag \in {"WaitingForSoe", "WaitingForDate"} THEN out
               ELSE Append(out, state)
    /\ nones' = nones + 1
    /\ seen' = [tag |-> state.tag, line |-> "", eof |-> TRUE]
    /\ UNCHANGED <<kind, lines, pos, state, panic, reads, gram, inst, commandVars>>

\* Drained reporting the truncation
DrainedReportsTruncation ==
    /\ pc' = "idle"
    /\ ret' = IF state.tag = "End" THEN "None" ELSE "TruncatedInput"
    /\ nones' = nones + 1
    /\ seen' = [tag |-> state.tag, line |-> "", eof |-> TRUE]
    /\ UNCHANGED <<kind, lines, pos, state, out, panic, reads, gram, inst, commandVars>>

Drained ==
    /\ pc' = "idle"
    /\ ret' = "None"
    /\ nones' = nones + 1
    /\ seen' = [tag |-> state.tag, line |-> "", eof |-> TRUE]
    /\ UNCHANGED <<kind, lines, pos, state, out, panic, reads, gram, inst, commandVars>>

\* the caller hands the whole text to parse()
Parse ==
    /\ pc = "idle"
    /\ ~gram.run
    /\ gram' = parse(TextOf(lines))
    /\ UNCHANGED <<kind, lines, pos, state, out, pc, ret, panic, nones, reads, seen, inst, commandVars>>

InLoop(k, tag) ==
    /\ kind = k
    /\ pc = "running"
    /\ pos < Len(lines)
    /\ state.tag = tag

VecWaitingForSoe ==
    InLoop("vector", "WaitingForSoe") /\ \E o \in {VecOnWaitingForSoe(state, lines[pos + 1])} : Iterate(o)

VecWaitingForDate ==
    InLoop("vector", "WaitingForDate") /\ \E o \in {VecOnWaitingForDate(state, lines[pos + 1])} : Iterate(o)

VecDate ==
    InLoop("vector", "Date") /\ \E o \in {VecOnDate(state, lines[pos + 1])} : Iterate(o)

VecPosition ==
    InLoop("vector", "Position") /\ \E o \in {VecOnPosition(state, lines[pos + 1])} : Iterate(o)

VecComplete ==
    InLoop("vector", "Complete") /\ \E o \in {VecOnComplete(state, lines[pos + 1])} : Iterate(o)

VecEnd ==
    InLoop("vector", "End") /\ \E o \in {VecOnEnd(state, lines[pos + 1])} : Iterate(o)

VecDrained ==
    kind = "vector" /\ pc = "running" /\ pos = Len(lines) /\ Drained

ElWaitingForSoe ==
    InLoop("elements", "WaitingForSoe") /\ \E o \in {ElOnWaitingForSoe(state, lines[pos + 1])} : Iterate(o)

ElWaitingForDate ==
    InLoop("elements", "WaitingForDate") /\ \E o \in {ElOnWaitingForDate(state, lines[pos + 1])} : Iterate(o)

ElDate ==
    InLoop("elements", "Date") /\ \E o \in {ElOnDate(state, lines[pos + 1])} : Iterate(o)

ElFirstRow ==
    InLoop("elements", "FirstRow") /\ \E o \in {ElOnFirstRow(state, lines[pos + 1])} : Iterate(o)

ElSecondRow ==
    InLoop("elements", "SecondRow") /\ \E o \in {ElOnSecondRow(state, lines[pos + 1])} : Iterate(o)

ElThirdRow ==
    InLoop("elements", "ThirdRow") /\ \E o \in {ElOnThirdRow(state, lines[pos + 1])} : Iterate(o)

ElEnd ==
    InLoop("elements", "End") /\ \E o \in {ElOnEnd(state, lines[pos + 1])} : Iterate(o)

ElDrained ==
    kind = "elements" /\ pc = "running" /\ pos = Len(lines) /\ Drained

Next ==
    \/ Call
    \/ Parse
    \/ VecWaitingForSoe
    \/ VecWaitingForDate
    \/ VecDate
    \/ VecPosition
    \/ VecComplete
    \/ VecEnd
    \/ VecDrained
    \/ ElWaitingForSoe
    \/ ElWaitingForDate
    \/ ElDate
    \/ ElFirstRow
    \/ ElSecondRow
    \/ ElThirdRow
    \/ ElEnd
    \/ ElDrained

Spec == Init /\ [][Next]_vars

(***************************************************************************)
(* Two parsers side by side.  A parser owns its state and its input        *)
(* iterator (the fields of the struct); parse() owns nothing beyond its    *)
(* call.  Each of the two is a streaming parser over its own lines or a    *)
(* call of parse() on its own text, and the caller advances them in any    *)
(* order, one whole call at a time.                                        *)
(***************************************************************************)
PairKinds == {"vector", "elements", "grammar"}

\* the line format of the input given to a parser of kind k
FormatOf(k) == IF k = "vector" THEN "vector" ELSE "elements"

\* documents with 0..MaxRecords records, one that ends inside its second
\* record and one whose second date line is malformed
PairInputs(k) ==
    { Block(FormatOf(k), [j \in 1..n |-> 1 + (j % 2)]) : n \in 0..MaxRecords } \cup
    { <<"$$SOE">> \o RecordLines(FormatOf(k), 1) \o SubSeq(RecordLines(FormatOf(k), 2), 1, 2),
      <<"$$SOE">> \o RecordLines(FormatOf(k), 1) \o <<DateBadEra>> }

\* a parser as its constructor leaves it
Fresh(k, ls) ==
    [kind |-> k, lines |-> ls, pos |-> 0, state |-> [tag |-> "WaitingForSoe"],
     out |-> <<>>, pc |-> "idle", ret |-> "-", panic |-> "none", nones |-> 0,
     calls |-> 0, gram |-> NotParsed]

\* the match of next(): the arm of the state the parser is in
Arm(k, st, line) ==
    IF k = "vector"
    THEN CASE st.tag = "WaitingForSoe" -> VecOnWaitingForSoe(st, line)
           [] st.tag = "WaitingForDate" -> VecOnWaitingForDate(st, line)
           [] st.tag = "Date" -> VecOnDate(st, line)
           [] st.tag = "Position" -> VecOnPosition(st, line)
           [] st.tag = "Complete" -> VecOnComplete(st, line)
           [] OTHER -> VecOnEnd(st, line)
    ELSE CASE st.tag = "WaitingForSoe" -> ElOnWaitingForSoe(st, line)
           [] st.tag = "WaitingForDate" -> ElOnWaitingForDate(st, line)
           [] st.tag = "Date" -> ElOnDate(st, line)
           [] st.tag = "FirstRow" -> ElOnFirstRow(st, line)
           [] st.tag = "SecondRow" -> ElOnSecondRow(st, line)
           [] st.tag = "ThirdRow" -> ElOnThirdRow(st, line)
           [] OTHER -> ElOnEnd(st, line)

\* the parser p after the loop iteration with outcome o
AfterIteration(p, o) ==
    IF o.panic # "none"
    THEN [p EXCEPT !.pos = @ + 1, !.pc = "panicked", !.panic = o.panic]
    ELSE [p EXCEPT !.pos = @ + 1,
                   !.state = o.state,
                   !.out = IF o.ret = "Some" THEN Append(@, o.item) ELSE @,
                   !.ret = IF o.ret = "continue" THEN @ ELSE o.ret,
                   !.pc = IF o.ret = "continue" THEN "running" ELSE "idle",
                   !.nones = IF o.ret = "None" THEN @ + 1 ELSE @]

\* next(): the loop runs until an arm returns or panics, or the input is
\* drained
RECURSIVE RunLoop(_)
RunLoop(p) ==
    IF p.pos = Len(p.lines)
    THEN [p EXCEPT !.pc = "idle", !.ret = "None", !.nones = @ + 1]
    ELSE Only({ IF q.pc = "running" THEN RunLoop(q) ELSE q :
                q \in {AfterIteration(p, Arm(p.kind, p.state, p.lines[p.pos + 1]))} })

\* one call: next() of a streaming parser, parse() of the grammar parser
CallOf(p) ==
    IF p.kind = "grammar"
    THEN Only({ [p EXCEPT !.calls = @ + 1, !.gram = g, !.out = g.items,
                          !.panic = g.panic,
                          !.pc = IF g.outcome = "panic" THEN "panicked" ELSE "idle"] :
                g \in {parse(TextOf(p.lines))} })
    ELSE RunLoop([p EXCEPT !.calls = @ + 1, !.pc = "running"])

\* the caller may call a parser that has not panicked; parse() is called
\* once, next() as long as the bound on calls after a None allows
MayCall(p) ==
    /\ p.pc = "idle"
    /\ IF p.kind = "grammar" THEN p.calls = 0 ELSE p.nones <= MaxExtraCalls

\* the caller went from one parser to the other: counted up to 2
Switches(i) ==
    IF inst.last \notin {0, i} /\ inst.switches < 2
    THEN inst.switches + 1 ELSE inst.switches

\* Advance writing the state of the called parser into the other one too
AdvanceSharedState(i) ==
    /\ inst # <<>>
    /\ MayCall(inst.p[i])
    /\ inst' = [p |-> [j \in 1..2 |->
                          IF j = i THEN CallOf(inst.p[i])
                          ELSE [inst.p[j] EXCEPT !.state = CallOf(inst.p[i]).state]],
                last |-> i, switches |-> Switches(i)]
    /\ UNCHANGED <<kind, lines, pos, state, out, pc, ret, panic, nones, reads, seen, gram, commandVars>>

\* Advance with a result that depends on which of the two parsers it is
AdvanceStampsInstance(i) ==
    /\ inst # <<>>
    /\ MayCall(inst.p[i])
    /\ inst' = [p |-> [inst.p EXCEPT ![i] = [CallOf(@) EXCEPT !.ret = IF i = 1 THEN @ ELSE "None"]],
                last |-> i, switches |-> Switches(i)]
    /\ UNCHANGED <<kind, lines, pos, state, out, pc, ret, panic, nones, reads, seen, gram, commandVars>>

\* the caller calls parser i, which runs on its own fields only
Advance(i) ==
    /\ inst # <<>>
    /\ MayCall(inst.p[i])
    /\ inst' = [p |-> [inst.p EXCEPT ![i] = CallOf(@)],
                last |-> i, switches |-> Switches(i)]
    /\ UNCHANGED <<kind, lines, pos, state, out, pc, ret, panic, nones, reads, seen, gram, commandVars>>

AdvanceFirst == Advance(1)

AdvanceSecond == Advance(2)

\* the parsers a caller can construct
FreshParsers == UNION { { Fresh(k, ls) : ls \in PairInputs(k) } : k \in PairKinds }

\* two parsers are constructed, each over an input of its own
PairInit ==
    /\ inst \in { [p |-> <<a, b>>, last |-> 0, switches |-> 0] :
                  a \in FreshParsers, b \in FreshParsers }
    /\ kind = "vector"
    /\ lines = <<>>
    /\ pos = 0
    /\ state = [tag |-> "WaitingForSoe"]
    /\ out = <<>>
    /\ pc = "idle"
    /\ ret = "-"
    /\ panic = "none"
    /\ nones = 0
    /\ reads = 0
    /\ seen = NotSeen
    /\ gram = NotParsed
    /\ CommandsIdle

PairNext ==
    \/ AdvanceFirst
    \/ AdvanceSecond

PairSpec == PairInit /\ [][PairNext]_vars

(***************************************************************************)
(* A caller of the command builder.  It holds one builder and the command  *)
(* last built from it; applying a setter gives it a new builder, and it    *)
(* lets go of the command built from the old one.                          *)
(***************************************************************************)
\* the setters of one chain
MaxSetters == 2

\* the target and center bodies the caller names
Ids == {-31, 301, 399}

Centers == {0, 10, 399}

\* the instants of its time ranges
Instants == {Time(2016, 10, 15, 12, 0, 0), Time(2016, 10, 15, 13, 0, 0)}

\* no parser is run
ParsersIdle ==
    /\ kind = "vector"
    /\ lines = <<>>
    /\ pos = 0
    /\ state = [tag |-> "WaitingForSoe"]
    /\ out = <<>>
    /\ pc = "idle"
    /\ ret = "-"
    /\ panic = "none"
    /\ nones = 0
    /\ reads = 0
    /\ seen = NotSeen
    /\ gram = NotParsed
    /\ inst = <<>>

BuilderInit ==
    /\ ParsersIdle
    /\ CommandsIdle

\* a setter, called with the values given for the fields it names, gave the
\* caller the builder b
Set(b, name, given) ==
    /\ builder # NoBuilder
    /\ Len(chain) < MaxSetters
    /\ builder' = b
    /\ chain' = Append(chain, name)
    /\ calls' = Append(calls, [self |-> builder, given |-> given, result |-> b])
    /\ built' = NotBuilt
    /\ params' = NotAsked
    /\ UNCHANGED <<parserVars, queryVars, retryVars>>

FromId ==
    /\ builder = NoBuilder
    /\ \E id \in Ids : builder' = from_id(id)
    /\ UNCHANGED <<chain, calls, built, params, parserVars, queryVars, retryVars>>

WithId == \E id \in Ids : Set(with_id(builder, id), "with_id", [id |-> id])

WithStart ==
    \E t \in Instants : Set(with_start(builder, t), "with_start", [start |-> t])

WithEnd == \E t \in Instants : Set(with_end(builder, t), "with_end", [end |-> t])

WithRange ==
    \E t1 \in Instants, t2 \in Instants :
        Set(with_range(builder, t1, t2), "with_range", [start |-> t1, end |-> t2])

WithCenter ==
    \E c \in Centers : Set(with_center(builder, c), "with_center", [center |-> c])

BuildWithType ==
    /\ builder # NoBuilder
    /\ \E t \in CommandTypes :
           built' = [called |-> TRUE, type |-> t,
                     result |-> build_with_type(builder, t)]
    /\ params' = NotAsked
    /\ UNCHANGED <<builder, chain, calls, parserVars, queryVars, retryVars>>

\* get_parameters on the command an Ok holds
GetParameters ==
    /\ built # NotBuilt
    /\ built.result.ok
    /\ params' = [run |-> TRUE,
                  pairs |-> Command_get_parameters(built.result.command)]
    /\ UNCHANGED <<builder, chain, calls, built, parserVars, queryVars, retryVars>>

BuilderNext ==
    \/ FromId
    \/ WithId
    \/ WithStart
    \/ WithEnd
    \/ WithRange
    \/ WithCenter
    \/ BuildWithType
    \/ GetParameters

BuilderSpec == BuilderInit /\ [][BuilderNext]_vars

(***************************************************************************)
(* A caller of the query.  It holds one Query, sets its fields and asks    *)
(* for its parameters; setting a field lets go of the parameters asked     *)
(* for before.                                                             *)
(***************************************************************************)
QueryFormats == {"Json", "Text"}

\* Option<Command>
Commands ==
    {None, Some([tag |-> "MajorBody"]), Some([tag |-> "Id", id |-> 499]),
     Some([tag |-> "Name", name |-> "Mars"])}

Select(n) == [tag |-> "Select", n |-> n]

Macro(c) == [tag |-> "Macro", c |-> c]

StepSizes ==
    {[unit |-> "Days", n |-> 1], [unit |-> "Minutes", n |-> 60],
     [unit |-> "Months", n |-> 2], [unit |-> "Unitless", n |-> 10]}

QuantityLists ==
    {<<>>,
     <<Select(1), Select(9), Select(20), Select(23), Select(24), Select(29)>>,
     <<Macro("A")>>}

\* the time range of a query: none, or its two ends
TimeRanges ==
    {<<None, None>>,
     <<Some(Time(2006, 1, 1, 0, 0, 0)), Some(Time(2006, 1, 20, 0, 0, 0))>>}

ObserverArgsValues ==
    { [center |-> c, start_time |-> r[1], stop_time |-> r[2],
       step_size |-> s, quantities |-> q] :
      c \in {None, Some(399)}, r \in TimeRanges, s \in StepSizes,
      q \in QuantityLists }

EphemerisTypes ==
    { [tag |-> "Observer", args |-> a] : a \in ObserverArgsValues }
    \cup { [tag |-> t] : t \in {"Vectors", "Elements", "Spk", "Approach"} }

EmailAddresses ==
    {"user@mail.example.com", "user@example.com", "mail.example.com",
     "a@b@mail.example.com", "first.m.last@example.com", "user@a..b", ""}

\* what a query of the service comes back with: the lines of a vector
\* table, those of an orbital-element table, or a failure
Answers ==
    {[ok |-> TRUE, lines |-> Block("vector", <<1>>)],
     [ok |-> TRUE, lines |-> Block("elements", <<1, 2>>)],
     [ok |-> FALSE]}

\* Query::major_bodies()
Query_major_bodies == [QueryDefault EXCEPT !.command = Some([tag |-> "MajorBody"])]

\* Query::observer()
Query_observer == [QueryDefault EXCEPT !.ephem_type = EphemerisTypeDefault]

\* Query::vectors()
Query_vectors == [QueryDefault EXCEPT !.ephem_type = [tag |-> "Vectors"]]

\* Query::elements()
Query_elements == [QueryDefault EXCEPT !.ephem_type = [tag |-> "Elements"]]

\* Query::approach()
Query_approach == [QueryDefault EXCEPT !.ephem_type = [tag |-> "Approach"]]

\* Query::spk()
Query_spk == [QueryDefault EXCEPT !.ephem_type = [tag |-> "Spk"]]

\* .collect() over a streaming parser: next() is called until it returns None
RECURSIVE Collect(_)
Collect(p) ==
    Only({ IF q.pc = "panicked" THEN [ok |-> FALSE, panic |-> q.panic]
           ELSE IF q.ret = "None" THEN [ok |-> TRUE, items |-> q.out]
           ELSE Collect(q) :
           q \in {CallOf(p)} })

\* the branches of Query::parse on the lines the query came back with
Query_parseResult(self, query_result) ==
    IF self.command = Some([tag |-> "MajorBody"])
    THEN [ok |-> TRUE, tag |-> "MajorBodies", from |-> query_result]
    ELSE IF self.ephem_type.tag = "Vectors"
    THEN Only({ IF c.ok THEN [ok |-> TRUE, tag |-> "Vector", items |-> c.items] ELSE c :
                c \in {Collect(Fresh("vector", query_result))} })
    ELSE IF self.ephem_type.tag = "Elements"
    THEN Only({ IF c.ok THEN [ok |-> TRUE, tag |-> "Elements", items |-> c.items] ELSE c :
                c \in {Collect(Fresh("elements", query_result))} })
    ELSE [ok |-> FALSE, panic |-> "todo"]

\* Query::parse: the parameters are built for the query, the answer of the
\* service is unwrapped, then the branches
Query_parse(self, answer) ==
    IF ~Query_get_parameters(self).ok
    THEN [ok |-> FALSE, panic |-> Query_get_parameters(self).panic,
          at |-> "get_parameters"]
    ELSE IF ~answer.ok
    THEN [ok |-> FALSE, panic |-> "HorizonsQueryError", at |-> "unwrap"]
    ELSE Query_parseResult(self, answer.lines) @@ [at |-> "branches"]

QueryInit ==
    /\ ParsersIdle
    /\ CommandsIdle

\* a setter left the query as q
SetQuery(q) ==
    /\ qpc = "idle"
    /\ query' = q
    /\ qparams' = NotAsked
    /\ qparsed' = NotAsked
    /\ UNCHANGED <<qpc, qpanic, parserVars, builderVars, retryVars>>

SetFormat == \E f \in QueryFormats : SetQuery([query EXCEPT !.format = f])

SetCommand == \E c \in Commands : SetQuery([query EXCEPT !.command = c])

SetObjData == \E b \in BOOLEAN : SetQuery([query EXCEPT !.obj_data = b])

SetMakeEphem == \E b \in BOOLEAN : SetQuery([query EXCEPT !.make_ephem = b])

SetEphemType ==
    \E e \in EphemerisTypes : SetQuery([query EXCEPT !.ephem_type = e])

\* set_email_addr: Some(addr) goes through EmailAddressType::new, which
\* panics on an address it does not accept; None sets the default
SetEmailAddr ==
    \/ SetQuery([query EXCEPT !.email_addr = None])
    \/ \E addr \in EmailAddresses :
         \E made \in {EmailAddressType_new(addr)} :
           IF made.ok
           THEN SetQuery([query EXCEPT !.email_addr = made.v])
           ELSE /\ qpc = "idle"
                /\ qpc' = "panicked"
                /\ qpanic' = made.panic
                /\ UNCHANGED <<query, qparams, qparsed, parserVars, builderVars, retryVars>>

\* the caller takes a new query from one of the constructors
NewQuery ==
    \E q \in {Query_major_bodies, Query_observer, Query_vectors, Query_elements,
               Query_approach, Query_spk} : SetQuery(q)

\* query.parse(): what it gave, or the panic it ended in and where
QueryParse ==
    /\ qpc = "idle"
    /\ \E answer \in Answers :
         \E got \in {Query_parse(query, answer)} :
           /\ qparsed' = [run |-> TRUE] @@ got
           /\ IF got.ok
              THEN UNCHANGED <<qpc, qpanic>>
              ELSE qpc' = "panicked" /\ qpanic' = got.panic
    /\ UNCHANGED <<query, qparams, parserVars, builderVars, retryVars>>

\* query.get_parameters()
QueryGetParameters ==
    /\ qpc = "idle"
    /\ \E got \in {Query_get_parameters(query)} :
         IF got.ok
         THEN /\ qparams' = [run |-> TRUE, pairs |-> got.pairs]
              /\ UNCHANGED <<qpc, qpanic>>
         ELSE /\ qpc' = "panicked"
              /\ qpanic' = got.panic
              /\ UNCHANGED qparams
    /\ UNCHANGED <<query, qparsed, parserVars, builderVars, retryVars>>

QueryNext ==
    \/ SetFormat
    \/ SetCommand
    \/ SetObjData
    \/ SetMakeEphem
    \/ SetEphemType
    \/ SetEmailAddr
    \/ NewQuery
    \/ QueryGetParameters
    \/ QueryParse

QuerySpec == QueryInit /\ [][QueryNext]_vars

(***************************************************************************)
(* A call of query_with_retries.  What the service answers is not the      *)
(* program's to decide: each query the call issues comes back with a text  *)
(* or fails.  The call is followed from one await to the next.             *)
(***************************************************************************)
MaxRetries == 4

\* the values of retries (a u8) the caller passes: the small ones, the 10 of
\* Parse::parse and the largest
RetriesValues == (0..MaxRetries) \cup {10, 255}

\* the range of the for loop with its end included
InRangeInclusive(n, retries) == 1 <= n /\ n <= retries

\* n is in 1..retries
InRange(n, retries) == 1 <= n /\ n < retries

\* the head of the for loop: into the body with the next n, or past the loop
\* to Err(HorizonsQueryError)
ForLoop(r) ==
    IF InRange(r.n, r.retries)
    THEN [r EXCEPT !.pc = "query"]
    ELSE [r EXCEPT !.pc = "done", !.result = [tag |-> "Err"]]

RetryInit ==
    /\ ParsersIdle
    /\ CommandsIdle

\* query_with_retries(retries) is called and runs up to its first await
QueryWithRetries ==
    /\ retry = NotCalled
    /\ \E r \in RetriesValues :
         retry' = ForLoop([pc |-> "for", retries |-> r, n |-> 1, queries |-> 0,
                           failed |-> 0, sleeps |-> 0,
                           result |-> [tag |-> "pending"]])
    /\ UNCHANGED <<parserVars, builderVars, queryVars>>

\* self.query().await comes back: Ok is returned, a failure is slept on
QueryAnswered ==
    /\ retry.pc = "query"
    /\ \E a \in Answers :
         retry' = IF a.ok
                  THEN [retry EXCEPT !.pc = "done", !.queries = @ + 1,
                                     !.result = [tag |-> "Ok", lines |-> a.lines]]
                  ELSE [retry EXCEPT !.pc = "sleep", !.queries = @ + 1,
                                     !.failed = @ + 1]
    /\ UNCHANGED <<parserVars, builderVars, queryVars>>

\* the sleep of one second is over: the loop goes on
SleepOver ==
    /\ retry.pc = "sleep"
    /\ retry' = ForLoop([retry EXCEPT !.n = @ + 1, !.sleeps = @ + 1])
    /\ UNCHANGED <<parserVars, builderVars, queryVars>>

RetryNext ==
    \/ QueryWithRetries
    \/ QueryAnswered
    \/ SleepOver

RetrySpec == RetryInit /\ [][RetryNext]_vars

(***************************************************************************)
(* The shape of an input, read off its lines.                              *)
(***************************************************************************)
\* the index of the first line equal to "$$SOE", 0 without one
FirstSoe(ls) ==
    IF \E i \in 1..Len(ls) : ls[i] = "$$SOE"
    THEN CHOOSE i \in 1..Len(ls) :
            ls[i] = "$$SOE" /\ \A j \in 1..(i - 1) : ls[j] # "$$SOE"
    ELSE 0

\* the physical lines of one record
GroupLen(k) == IF k = "vector" THEN 4 ELSE 5

\* the lines after line b are there and print a record
Decodable(ls, k, b) ==
    /\ b + GroupLen(k) <= Len(ls)
    /\ IsDate(ls[b + 1])
    /\ IF k = "vector"
       THEN /\ IsRow(ls[b + 2], "X")
            /\ IsRow(ls[b + 3], "VX")
       ELSE /\ IsRow(ls[b + 2], "EC")
            /\ IsRow(ls[b + 3], "OM")
            /\ IsRow(ls[b + 4], "N")
            /\ IsRow(ls[b + 5], "A")

\* the lines after line b are a well-formed record
GroupAt(ls, k, b) ==
    /\ Decodable(ls, k, b)
    /\ k = "vector" => StartsWith(ls[b + 4], " LT=")

\* the record the lines after line b print
RecordAt(ls, k, b) ==
    IF k = "vector"
    THEN [time |-> PrintedTime(ls[b + 1]),
          position |-> Printed(ls[b + 2]),
          velocity |-> Printed(ls[b + 3])]
    ELSE [time |-> PrintedTime(ls[b + 1]),
          eccentricity |-> Printed(ls[b + 2])[1],
          periapsis_distance |-> Printed(ls[b + 2])[2],
          inclination |-> Printed(ls[b + 2])[3],
          longitude_of_ascending_node |-> Printed(ls[b + 3])[1],
          argument_of_perifocus |-> Printed(ls[b + 3])[2],
          time_of_periapsis |-> Printed(ls[b + 3])[3],
          mean_motion |-> Printed(ls[b + 4])[1],
          mean_anomaly |-> Printed(ls[b + 4])[2],
          true_anomaly |-> Printed(ls[b + 4])[3],
          semi_major_axis |-> Printed(ls[b + 5])[1],
          apoapsis_distance |-> Printed(ls[b + 5])[2],
          siderral_orbit_period |-> Printed(ls[b + 5])[3]]

\* the number of records of a document: header lines, "$$SOE", records, "$$EOE"
RecordCount(ls, k) == (Len(ls) - FirstSoe(ls) - 1) \div GroupLen(k)

\* header lines, "$$SOE", N >= 0 well-formed records, "$$EOE" and nothing more
WellFormed(ls, k) ==
    /\ FirstSoe(ls) > 0
    /\ Len(ls) = FirstSoe(ls) + GroupLen(k) * RecordCount(ls, k) + 1
    /\ ls[Len(ls)] = "$$EOE"
    /\ \A j \in 1..RecordCount(ls, k) :
          GroupAt(ls, k, FirstSoe(ls) + GroupLen(k) * (j - 1))

\* the j-th record of the block that starts at the first "$$SOE"
Expected(j) == RecordAt(lines, kind, FirstSoe(lines) + GroupLen(kind) * (j - 1))

Returned == pc = "idle" /\ ret # "-"

(***************************************************************************)
(* C1.  On header lines, "$$SOE", N well-formed 4-line vector records and  *)
(* "$$EOE" the vector parser yields exactly N records, the k-th being the  *)
(* one the k-th 4-line group prints: what it has yielded is at all times   *)
(* the first records of the document in file order, and when it returns    *)
(* None it has yielded all N.                                              *)
(***************************************************************************)
C1_VectorRecordsInFileOrder ==
    (kind = "vector" /\ WellFormed(lines, kind)) =>
        /\ pc # "panicked"
        /\ Len(out) <= RecordCount(lines, kind)
        /\ \A j \in 1..Len(out) : out[j] = Expected(j)
        /\ (Returned /\ ret = "None") => Len(out) = RecordCount(lines, kind)

C1_Witness ==
    /\ kind = "vector" /\ WellFormed(lines, kind)
    /\ Returned /\ ret = "None"
    /\ Len(out) = 2 /\ out[1] # out[2]
    /\ FirstSoe(lines) > 1

(***************************************************************************)
(* C2.  On header lines, "$$SOE", N well-formed 5-line orbital-element     *)
(* records and "$$EOE" the element parser yields exactly N records in file *)
(* order, and each record takes exactly 5 lines: a call that returns the   *)
(* j-th record has read the lines up to the last line of the j-th group.   *)
(***************************************************************************)
C2_ElementRecordsInFileOrder ==
    (kind = "elements" /\ WellFormed(lines, kind)) =>
        /\ pc # "panicked"
        /\ Len(out) <= RecordCount(lines, kind)
        /\ \A j \in 1..Len(out) : out[j] = Expected(j)
        /\ (Returned /\ ret = "Some") => pos = FirstSoe(lines) + 5 * Len(out)
        /\ (Returned /\ ret = "None") => Len(out) = RecordCount(lines, kind)

C2_Witness ==
    /\ kind = "elements" /\ WellFormed(lines, kind)
    /\ Returned /\ ret = "None"
    /\ Len(out) = 2 /\ out[1] # out[2]
    /\ pos = Len(lines)

(***************************************************************************)
(* C3.  Whatever the input, a record the vector parser yields has its time *)
(* from the first line, its position from the X, Y, Z fields of the second *)
(* line and its velocity from the VX, VY, VZ fields of the third line of   *)
(* the four lines read last; the fourth line gives it nothing.             *)
(***************************************************************************)
C3_VectorRecordFromItsGroup ==
    (kind = "vector" /\ Returned /\ ret = "Some") =>
        /\ pos >= 4 /\ Len(out) >= 1
        /\ IsDate(lines[pos - 3])
        /\ IsRow(lines[pos - 2], "X")
        /\ IsRow(lines[pos - 1], "VX")
        /\ out[Len(out)] = RecordAt(lines, "vector", pos - 4)

\* the second record of an input, with a last position field shorter than
\* 22 characters
C3_Witness ==
    /\ kind = "vector" /\ Returned /\ ret = "Some"
    /\ Len(out) = 2
    /\ lines[pos - 3] = VDate2 /\ lines[pos - 2] = VPosShort /\ lines[pos - 1] = VVel2
    /\ out[2].position = <<Num(FALSE, 25, -1), Num(TRUE, 7125, -2), Num(FALSE, 15, -1)>>

(***************************************************************************)
(* C4.  A record of the element parser has its time from the date line and *)
(* its twelve fields from EC,QR,IN / OM,W,Tp / N,MA,TA / A,AD,PR of the    *)
(* five lines read last, and the values decoded from the earlier lines are *)
(* held unchanged by the states FirstRow, SecondRow and ThirdRow.          *)
(***************************************************************************)
C4_ElementFieldsCarried ==
    (kind = "elements" /\ pc # "panicked") =>
        /\ state.tag = "FirstRow" =>
              /\ state.time = PrintedTime(lines[pos - 1])
              /\ <<state.eccentricity, state.periapsis_distance, state.inclination>>
                    = Printed(lines[pos])
        /\ state.tag = "SecondRow" =>
              /\ state.time = PrintedTime(lines[pos - 2])
              /\ <<state.eccentricity, state.periapsis_distance, state.inclination>>
                    = Printed(lines[pos - 1])
              /\ <<state.longitude_of_ascending_node, state.argument_of_perifocus,
                   state.time_of_periapsis>> = Printed(lines[pos])
        /\ state.tag = "ThirdRow" =>
              /\ state.time = PrintedTime(lines[pos - 3])
              /\ <<state.eccentricity, state.periapsis_distance, state.inclination>>
                    = Printed(lines[pos - 2])
              /\ <<state.longitude_of_ascending_node, state.argument_of_perifocus,
                   state.time_of_periapsis>> = Printed(lines[pos - 1])
              /\ <<state.mean_motion, state.mean_anomaly, state.true_anomaly>>
                    = Printed(lines[pos])
        /\ (Returned /\ ret = "Some") =>
              /\ pos >= 5 /\ Len(out) >= 1
              /\ IsDate(lines[pos - 4])
              /\ IsRow(lines[pos - 3], "EC") /\ IsRow(lines[pos - 2], "OM")
              /\ IsRow(lines[pos - 1], "N") /\ IsRow(lines[pos], "A")
              /\ out[Len(out)] = RecordAt(lines, "elements", pos - 5)

C4_Witness ==
    /\ kind = "elements" /\ Returned /\ ret = "Some"
    /\ Len(out) = 2
    /\ lines[pos - 4] = EDate1 /\ lines[pos - 2] = ERowB2 /\ lines[pos] = ERowD1
    /\ out[2].time = Time(2022, 6, 19, 18, 0, 0)
    /\ out[2].eccentricity = Num(FALSE, 171179, -7)
    /\ out[2].argument_of_perifocus = Num(FALSE, 9, 1)
    /\ out[2].siderral_orbit_period = Num(FALSE, 315425, 2)

(***************************************************************************)
(* C5.  When the line after the first "$$SOE" is "$$EOE", either parser    *)
(* yields no record and does not fail, and is in state End when next()     *)
(* returns.                                                                *)
(***************************************************************************)
EmptyBody(ls) ==
    /\ FirstSoe(ls) > 0
    /\ FirstSoe(ls) < Len(ls)
    /\ ls[FirstSoe(ls) + 1] = "$$EOE"

C5_EmptyBodyYieldsNothing ==
    EmptyBody(lines) =>
        /\ out = <<>>
        /\ pc # "panicked" /\ panic = "none"
        /\ Returned => (ret = "None" /\ state.tag = "End")

C5_Witness ==
    /\ EmptyBody(lines)
    /\ kind = "elements"
    /\ Returned /\ ret = "None" /\ state.tag = "End" /\ out = <<>>
    /\ pos = Len(lines)

(***************************************************************************)
(* The line a loop iteration read, against the format.                     *)
(***************************************************************************)
\* the states whose line is a data row
RowTags(k) ==
    IF k = "vector" THEN {"Date", "Position"}
    ELSE {"Date", "FirstRow", "SecondRow", "ThirdRow"}

\* the labels the row read in a state must carry, in order
ExpectedLabels(k, tag) ==
    IF k = "vector"
    THEN IF tag = "Date" THEN <<" X =", " Y =", " Z =">> ELSE <<" VX=", " VY=", " VZ=">>
    ELSE CASE tag = "Date" -> <<" EC=", " QR=", " IN=">>
           [] tag = "FirstRow" -> <<" OM=", " W =", " Tp=">>
           [] tag = "SecondRow" -> <<" N =", " MA=", " TA=">>
           [] OTHER -> <<" A =", " AD=", " PR=">>

\* the row read in a state, by its first label
RowOf(k, tag) ==
    IF k = "vector"
    THEN IF tag = "Date" THEN "X" ELSE "VX"
    ELSE CASE tag = "Date" -> "EC"
           [] tag = "FirstRow" -> "OM"
           [] tag = "SecondRow" -> "N"
           [] OTHER -> "A"

HasAt(line, i, l) == Len(line) >= i + Len(l) - 1 /\ SubSeq(line, i, i + Len(l) - 1) = l

\* each label stands at its column: a 4-character label, a 22-character field
LabelsInPlace(line, ls) ==
    \A i \in 1..3 : HasAt(line, 1 + (i - 1) * (4 + FieldWidth), ls[i])

\* the last iteration read a data row without the expected labels
LabelMismatchSeen ==
    /\ ~seen.eof
    /\ seen.tag \in RowTags(kind)
    /\ ~LabelsInPlace(seen.line, ExpectedLabels(kind, seen.tag))

\* the last iteration read a line that is neither what its state expects
\* nor the "$$EOE" that ends the data
MalformedSeen ==
    /\ ~seen.eof
    /\ \/ seen.tag = "WaitingForDate" /\ seen.line # "$$EOE" /\ ~IsDate(seen.line)
       \/ seen.tag \in RowTags(kind) /\ ~IsRow(seen.line, RowOf(kind, seen.tag))

(***************************************************************************)
(* C6.  A data line that does not carry the expected labels at the         *)
(* expected columns makes next() return an UnexpectedLabel error value:    *)
(* the call returns, and what it returns is that error.                    *)
(***************************************************************************)
C6_LabelMismatchIsErrorValue ==
    LabelMismatchSeen => (pc = "idle" /\ ret = "UnexpectedLabel" /\ panic = "none")

(***************************************************************************)
(* C7.  The first malformed line (bad label, bad number or bad date) ends  *)
(* the lazy sequence with a failure, after the records before it have been *)
(* yielded, and the process is not aborted.                                *)
(***************************************************************************)
C7_MalformedLineEndsSequence ==
    MalformedSeen => (pc = "idle" /\ ret = "Failure" /\ panic = "none")

(***************************************************************************)
(* C8.  A record is yielded only when all its lines (4 for vectors, 5 for  *)
(* elements) have been read and decoded: every record yielded is the one a *)
(* complete group of lines read so far prints, and the lines read of a     *)
(* group that the end of the input or a failed decode cuts short have      *)
(* given no record.                                                        *)
(***************************************************************************)
\* the lines of the current record a state stands for
Stage(tag) ==
    CASE tag = "Date" -> 1
      [] tag \in {"Position", "FirstRow"} -> 2
      [] tag \in {"Complete", "SecondRow"} -> 3
      [] tag = "ThirdRow" -> 4
      [] OTHER -> 0

C8_OnlyCompleteRecords ==
    /\ Len(out) > 0 => FirstSoe(lines) > 0
    /\ \A j \in 1..Len(out) :
          /\ FirstSoe(lines) + GroupLen(kind) * j <= pos
          /\ Decodable(lines, kind, FirstSoe(lines) + GroupLen(kind) * (j - 1))
          /\ out[j] = Expected(j)
    /\ state.tag \notin {"WaitingForSoe", "End"} =>
          pos = FirstSoe(lines) + GroupLen(kind) * Len(out) + Stage(state.tag)
                + (IF pc = "panicked" THEN 1 ELSE 0)

\* the input ends after the velocity line of the second record: three of
\* its four lines are decoded and the record is not yielded
C8_Witness ==
    /\ kind = "vector"
    /\ seen.eof /\ Returned /\ ret = "None"
    /\ state.tag = "Complete"
    /\ Len(out) = 1
    /\ pos = Len(lines)

(***************************************************************************)
(* C9.  Once in End a parser stays in End: no later step yields a record   *)
(* or returns one, whatever the lines that are left.                       *)
(***************************************************************************)
C9_EndIsTerminal ==
    [][state.tag = "End" =>
          (state'.tag = "End" /\ out' = out /\ ret' \in {ret, "None"})]_vars

\* in End, a later call has read the date line of a second block
C9_Witness ==
    /\ state.tag = "End"
    /\ seen.tag = "End" /\ IsDate(seen.line)
    /\ Returned /\ ret = "None"
    /\ nones >= 2
    /\ lines[pos - 1] = "$$SOE"

(***************************************************************************)
(* C10.  As claimed: when the input is exhausted in a state other than End *)
(* next() reports a TruncatedInput error.                                  *)
(***************************************************************************)
ExhaustedSeen == seen.eof /\ seen.tag # "End"

C10_ExhaustedIsTruncatedInput ==
    ExhaustedSeen => ret = "TruncatedInput"

(***************************************************************************)
(* C10, amended.  When the input is exhausted in a state other than End    *)
(* next() returns None and reports no error: the sequence ends, the state  *)
(* is left as it was and nothing is yielded by that call.                  *)
(***************************************************************************)
C10_ExhaustedReturnsNone ==
    ExhaustedSeen =>
        /\ pc = "idle" /\ ret = "None"
        /\ panic = "none"
        /\ state.tag = seen.tag

\* the input ends inside the second record of an element document
C10_Witness ==
    /\ ExhaustedSeen
    /\ kind = "elements"
    /\ state.tag = "SecondRow"
    /\ Len(out) = 1
    /\ ret = "None"

(***************************************************************************)
(* C11.  When the input is exhausted in a state other than End, next()     *)
(* returns None and raises no error; the records yielded before stay as    *)
(* they are, and the record under assembly is never handed out: from then  *)
(* on no step adds a record or changes the state.                          *)
(***************************************************************************)
C11_ExhaustionIsSilent ==
    [][(pos = Len(lines) /\ state.tag # "End") =>
          /\ out' = out
          /\ state' = state
          /\ panic' = "none"
          /\ pc = "running" => (pc' = "idle" /\ ret' = "None")]_vars

\* an element document ends after the N,MA,TA line of its second record;
\* two calls have returned None since and the first record is all there is
C11_Witness ==
    /\ kind = "elements"
    /\ pos = Len(lines) /\ seen.eof
    /\ state.tag = "ThirdRow"
    /\ nones >= 2
    /\ Len(out) = 1

(***************************************************************************)
(* The two parsers of orbital elements side by side.                       *)
(***************************************************************************)
\* the streaming parser has come to the end of its sequence, or has panicked
StreamOver == (Returned /\ ret = "None") \/ pc = "panicked"

\* a time without its fraction of a second
WholeSeconds(t) == [t EXCEPT !.nano = 0]

\* the same twelve numbers, and the same time to the second
SameRecord(a, b) == [a EXCEPT !.time = WholeSeconds(a.time)] = [b EXCEPT !.time = WholeSeconds(b.time)]

\* the record the lines after line b print, with its fraction of a second
RecordWithFraction(ls, b) ==
    [RecordAt(ls, "elements", b) EXCEPT !.time.nano = PrintedFraction(ls[b + 1])]

(***************************************************************************)
(* C12.  As claimed: on every text the element parser run over the lines   *)
(* and parse() run over the text give the same records, in the same order  *)
(* and number, with times equal to the second.                             *)
(***************************************************************************)
C12_ParsersAgree ==
    (kind = "elements" /\ gram.run /\ StreamOver) =>
        /\ Len(gram.items) = Len(out)
        /\ \A j \in 1..Len(out) : SameRecord(out[j], gram.items[j])

(***************************************************************************)
(* C13.  As claimed: on a well-formed element document (header lines,      *)
(* "$$SOE", N records, "$$EOE") parse() succeeds and returns the N records *)
(* the document prints, in document order.                                 *)
(***************************************************************************)
C13_GrammarReturnsAllRecords ==
    (kind = "elements" /\ gram.run /\ WellFormed(lines, kind)) =>
        /\ gram.outcome = "ok"
        /\ Len(gram.items) = RecordCount(lines, kind)
        /\ \A j \in 1..Len(gram.items) :
              gram.items[j] = RecordWithFraction(lines, FirstSoe(lines) + 5 * (j - 1))

(***************************************************************************)
(* Malformed texts of orbital elements.                                    *)
(***************************************************************************)
\* lines that are not a line of the format at any place after "$$SOE": a
\* field without a number, a day the month does not have, a wrong era and
\* a row of the other format
GrammarBadLines == {ERowABadNumber, DateBadDay, DateBadEra, VPos1}

\* the byte offset of the first character of line i in the text
LineOffset(ls, i) == IF i = 1 THEN 0 ELSE Len(TextOf(SubSeq(ls, 1, i - 1))) + 1

\* the malformed lines of the data block
MalformedAt(ls) ==
    { i \in (FirstSoe(ls) + 1)..Len(ls) : ls[i] \in GrammarBadLines }

\* the offset lies in line i of the text, its line end included
InLine(offset, ls, i) ==
    offset >= LineOffset(ls, i) /\ offset <= LineOffset(ls, i) + Len(ls[i])

(***************************************************************************)
(* C14.  As claimed: on a malformed text parse() returns an error result   *)
(* with at least one syntax error whose offset lies in the malformed part, *)
(* and does not panic.                                                     *)
(***************************************************************************)
C14_GrammarFailsWithErrors ==
    (kind = "elements" /\ gram.run /\ FirstSoe(lines) > 0 /\ MalformedAt(lines) # {}) =>
        /\ gram.panic = "none"
        /\ gram.outcome = "err"
        /\ \E k \in 1..Len(gram.errors) : \E i \in MalformedAt(lines) :
              InLine(gram.errors[k], lines, i)

(***************************************************************************)
(* C15.  As claimed: on a document with two independent syntax errors the  *)
(* failure of parse() holds an error for each of them.                     *)
(***************************************************************************)
C15_GrammarReportsEveryError ==
    (lines \in TwiceDamaged /\ gram.run) =>
        /\ gram.panic = "none"
        /\ gram.outcome = "err"
        /\ \E k1, k2 \in 1..Len(gram.errors) :
              /\ InLine(gram.errors[k1], lines, 5)
              /\ InLine(gram.errors[k2], lines, 9)

(***************************************************************************)
(* Runs of a parser on its own.                                            *)
(***************************************************************************)
\* the parser p after n more calls, nothing else going on
RECURSIVE Calls(_, _)
Calls(p, n) ==
    IF n = 0 THEN p ELSE Only({ CallOf(q) : q \in {Calls(p, n - 1)} })

\* the parser of the same kind over the same lines, run alone for as many
\* calls as parser i has been given
Alone(i) == Calls(Fresh(inst.p[i].kind, inst.p[i].lines), inst.p[i].calls)

C18_DateLineDecoded ==
    (seen.tag = "WaitingForDate" /\ ~seen.eof /\ IsDate(seen.line)) =>
        /\ pc # "panicked"
        /\ state.tag = "Date"
        /\ state.time = PrintedTime(seen.line)
        /\ state.time.nano = 0

\* the element parser has read the date line that prints 18:00:00.5000
C18_Witness ==
    /\ seen.tag = "WaitingForDate" /\ seen.line = EDateHalf
    /\ state.tag = "Date"
    /\ state.time.hour = 18 /\ state.time.second = 0 /\ state.time.nano = 0
    /\ PrintedFraction(seen.line) > 0

(***************************************************************************)
(* C19.  As claimed: the time parse() gives a record has the printed year, *)
(* month, day, hour, minute and second, and as its sub-second part the     *)
(* printed fraction of a second (0.5 s for 18:00:00.5000).                 *)
(***************************************************************************)
C19_GrammarKeepsFraction ==
    (kind = "elements" /\ gram.run /\ gram.outcome = "ok" /\ WellFormed(lines, kind)) =>
        \A j \in 1..Len(gram.items) :
            /\ WholeSeconds(gram.items[j].time) =
                   PrintedTime(lines[FirstSoe(lines) + 5 * (j - 1) + 1])
            /\ gram.items[j].time.nano =
                   PrintedFraction(lines[FirstSoe(lines) + 5 * (j - 1) + 1])

(***************************************************************************)
(* C20.  As claimed: a field of a data line whose trimmed text is not a    *)
(* decimal number with optional sign and exponent ("NaN", "inf", an empty  *)
(* field) is rejected with a numeric parse error that next() returns, and  *)
(* no yielded record holds a value that is not a number.                   *)
(***************************************************************************)
\* the values of a record
ValuesOf(r) ==
    IF kind = "vector"
    THEN {r.position[i] : i \in 1..3} \cup {r.velocity[i] : i \in 1..3}
    ELSE {r.eccentricity, r.periapsis_distance, r.inclination,
          r.longitude_of_ascending_node, r.argument_of_perifocus,
          r.time_of_periapsis, r.mean_motion, r.mean_anomaly, r.true_anomaly,
          r.semi_major_axis, r.apoapsis_distance, r.siderral_orbit_period}

\* lines with a field that holds no decimal number
NonDecimalLines == {VPosNaN, ERowABadNumber}

C20_NonDecimalRejected ==
    /\ \A j \in 1..Len(out) : \A v \in ValuesOf(out[j]) : v.kind = "num"
    /\ (~seen.eof /\ seen.tag = "Date" /\ seen.line \in NonDecimalLines) =>
          (pc = "idle" /\ ret = "NumericParseError" /\ panic = "none")


(***************************************************************************)
(* The command builder.                                                    *)
(***************************************************************************)
\* C21: build_with_type returns Ok exactly for CommandType::Vector; for
\* MajorBody, Observer and OrbitalElement it returns Err(CommandTypeError),
\* whatever id, center and time range the builder holds.
C21_OkOnlyForVector ==
    built # NotBuilt =>
        /\ built.result.ok <=> built.type = "Vector"
        /\ built.type \in {"MajorBody", "Observer", "OrbitalElement"} =>
               built.result = [ok |-> FALSE, err |-> "CommandTypeError"]

\* an Observer command was asked of a builder with a center and a time range
\* set, and refused
C21_Witness ==
    /\ built # NotBuilt
    /\ built.type = "Observer"
    /\ ~built.result.ok
    /\ builder.center = 399
    /\ builder.start.some
    /\ builder.end.some


\* the setters applied to the builder held do not include with_center
CenterNotSet == \A k \in 1..Len(chain) : chain[k] # "with_center"

\* the pairs of a list of parameters
PairsOf(ps) == { ps[k] : k \in 1..Len(ps) }

\* C22: a command built from CommandBuilder::from_id(id) without with_center
\* has the same request parameters as after with_center(10): its CENTER is
\* "500@10".
C22_DefaultCenterIsSun ==
    (params.run /\ CenterNotSet) =>
        /\ params.pairs =
              Command_get_parameters(
                  build_with_type(with_center(builder, 10), "Vector").command)
        /\ <<"CENTER", "500@10">> \in PairsOf(params.pairs)
        /\ \A pair \in PairsOf(params.pairs) :
               pair[1] = "CENTER" => pair[2] = "500@10"

\* the parameters of a command built after from_id and with_range alone
C22_Witness ==
    /\ params.run
    /\ chain = <<"with_range">>
    /\ builder.id = 301


(***************************************************************************)
(* The query.                                                              *)
(***************************************************************************)
\* the pairs of the options an Observer query has configured
ConfiguredPairs(q) ==
    PairsOf(QueryFormat_get_parameters(q.format))
    \cup PairsOf(CommandType_get_parameters(q.command))
    \cup PairsOf(ObjData_get_parameters(q.obj_data))
    \cup PairsOf(MakeEphem_get_parameters(q.make_ephem))
    \cup {<<"EPHEM_TYPE", "OBSERVER">>}
    \cup PairsOf(Center_get_parameters(q.ephem_type.args.center))
    \cup PairsOf(StartTime_get_parameters(q.ephem_type.args.start_time))
    \cup PairsOf(StopTime_get_parameters(q.ephem_type.args.stop_time))
    \cup PairsOf(StepSize_get_parameters(q.ephem_type.args.step_size))
    \cup PairsOf(Quantities_get_parameters(q.ephem_type.args.quantities))

\* C23: the parameters of a Query with the Observer ephemeris type hold one
\* pair for every configured option: format, COMMAND, OBJ_DATA, MAKE_EPHEM,
\* EPHEM_TYPE = OBSERVER, CENTER, START_TIME, STOP_TIME, STEP_SIZE ("1 d" for
\* StepSize::Days(1)) and QUANTITIES, its values joined by commas in order.
C23_EveryOptionHasItsPair ==
    (qparams.run /\ query.ephem_type.tag = "Observer") =>
        /\ ConfiguredPairs(query) \subseteq PairsOf(qparams.pairs)
        /\ query.ephem_type.args.step_size = [unit |-> "Days", n |-> 1] =>
               <<"STEP_SIZE", "1 d">> \in PairsOf(qparams.pairs)


(***************************************************************************)
(* The sentinels of the streaming parsers.                                 *)
(***************************************************************************)
\* the last loop iteration matched on the state tag and read a line
Handled(tag) == seen.tag = tag /\ ~seen.eof

\* C24: in WaitingForSoe a streaming parser discards every line, whatever it
\* holds, without an error and without yielding, until a line equal to
\* "$$SOE" ("$$SOE" with a space before or after it does not match); an
\* input without such a line yields no record and no error.
C24_OnlyExactSoeStarts ==
    /\ Handled("WaitingForSoe") =>
           /\ pc = "running"
           /\ panic = "none"
           /\ out = <<>>
           /\ state = [tag |-> IF seen.line = "$$SOE" THEN "WaitingForDate"
                                ELSE "WaitingForSoe"]
    /\ FirstSoe(lines) = 0 =>
           /\ out = <<>>
           /\ pc # "panicked"
           /\ ret # "Some"
           /\ state = [tag |-> "WaitingForSoe"]

\* every line of an input with " $$SOE" for a start sentinel, a record and
\* "$$EOE" in it, was discarded and the sequence ended
C24_Witness ==
    /\ Len(lines) > 2
    /\ FirstSoe(lines) = 0
    /\ lines[1] = " $$SOE"
    /\ lines[Len(lines)] = "$$EOE"
    /\ pos = Len(lines)
    /\ ret = "None"
    /\ out = <<>>


\* the ways the decoding of a date line fails
DateFailures == {"IndexOutOfBounds", "UnexpectedLabel", "DateParseError"}

\* the line has an "=" with "A.D. " after it, spaces between them or not
EraFollowsEquals(line) ==
    \E i \in 1..Len(line) :
        CharAt(line, i) = "=" /\ StartsWith(TrimStart(Drop(line, i)), "A.D. ")

\* C25: in WaitingForDate every line other than exactly "$$EOE" is decoded as
\* a timestamp line: a blank line, a second "$$SOE", "$$EOE " with a space
\* after it, or a line without "=" followed by "A.D. " is a date parse
\* failure; it is neither skipped nor taken for the end of the data.
C25_EveryLineIsADate ==
    (Handled("WaitingForDate") /\ seen.line # "$$EOE") =>
        /\ \/ /\ pc = "running"
              /\ parse_date_time(seen.line).ok
              /\ state = [tag |-> "Date", time |-> parse_date_time(seen.line).time]
           \/ /\ pc = "panicked"
              /\ panic \in DateFailures
              /\ state = [tag |-> "WaitingForDate"]
        /\ (seen.line \in {"", "$$SOE", "$$EOE "} \/ ~EraFollowsEquals(seen.line)) =>
               pc = "panicked"

\* a line "$$EOE " where a date line is due ended the call in a panic
C25_Witness ==
    /\ Handled("WaitingForDate")
    /\ seen.line = "$$EOE "
    /\ pc = "panicked"
    /\ panic \in DateFailures
    /\ Len(out) = 1


\* the Complete arm of the vector parser has just read "$$EOE"
SwallowedEoe == kind = "vector" /\ Handled("Complete") /\ seen.line = "$$EOE"

\* C26: in Complete the vector parser consumes the next line without looking
\* at it, yields the record and moves to WaitingForDate; when the fourth line
\* of a record is missing and "$$EOE" follows the velocity line, the sentinel
\* is the line discarded, the record is yielded all the same and the parser
\* never reaches End: in particular the line read next does not bring it there.
\* (WaitingForDate with "$$EOE" as the line read last is the state Complete
\* leaves behind on that line: no other arm of the vector parser leads there.)
C26_CompleteSwallowsAnyLine ==
    /\ [](Handled("Complete") =>
             /\ pc = "idle"
             /\ panic = "none"
             /\ ret = "Some"
             /\ state = [tag |-> "WaitingForDate"]
             /\ out # <<>>
             /\ out[Len(out)].time = PrintedTime(lines[pos - 3]))
    /\ [][(/\ kind = "vector"
            /\ pos > 0
            /\ state.tag = "WaitingForDate"
            /\ lines[pos] = "$$EOE") => state'.tag # "End"]_vars

\* no line still to be read is "$$EOE"
NoLaterEoe == \A j \in (pos + 1)..Len(lines) : lines[j] # "$$EOE"

\* C26, with the end of the data left to a later sentinel: in Complete the
\* vector parser consumes the next line without looking at it, yields the
\* record and moves to WaitingForDate; a "$$EOE" read there is discarded and
\* does not end the data, and the parser reaches End afterwards only if a
\* further line "$$EOE" follows: without one it never reaches End.
C26_SwallowedEoeDoesNotEnd ==
    /\ [](Handled("Complete") =>
             /\ pc = "idle"
             /\ panic = "none"
             /\ ret = "Some"
             /\ state = [tag |-> "WaitingForDate"]
             /\ out # <<>>
             /\ out[Len(out)].time = PrintedTime(lines[pos - 3]))
    /\ []((SwallowedEoe /\ NoLaterEoe) => [](state.tag # "End"))

\* the second record of a document was yielded on its only "$$EOE", read
\* where the fourth line of the record was due
C26_Witness ==
    /\ SwallowedEoe
    /\ NoLaterEoe
    /\ \A j \in 1..(pos - 1) : lines[j] # "$$EOE"
    /\ ret = "Some"
    /\ Len(out) = 2
    /\ state = [tag |-> "WaitingForDate"]


\* the last iteration read a sentinel where a data row was due
SentinelAsRow ==
    /\ ~seen.eof
    /\ seen.tag \in RowTags(kind)
    /\ seen.line \in {"$$SOE", "$$EOE"}

\* the last iteration of the element parser read a well-formed data row
\* other than the one its state expects
RowOutOfOrder ==
    /\ kind = "elements"
    /\ ~seen.eof
    /\ seen.tag \in RowTags(kind)
    /\ \E row \in {"EC", "OM", "N", "A"} :
           row # RowOf(kind, seen.tag) /\ IsRow(seen.line, row)

\* C27: the sentinels are recognised in their own states only: "$$EOE" read
\* while the element parser is in Date, FirstRow, SecondRow or ThirdRow (the
\* vector parser in Date or Position) is taken for a data line and fails the
\* label check, it does not end the sequence; and element rows in another
\* order than EC, OM, N, A are rejected.
C27_SentinelsOnlyInTheirStates ==
    (SentinelAsRow \/ RowOutOfOrder) =>
        /\ pc = "panicked"
        /\ panic = "UnexpectedLabel"
        /\ state.tag = seen.tag
        /\ ret # "None"

\* "$$EOE" read by the element parser where the N row was due, after the
\* EC and OM rows of its second record
C27_Witness ==
    /\ kind = "elements"
    /\ seen = [tag |-> "SecondRow", line |-> "$$EOE", eof |-> FALSE]
    /\ pc = "panicked"
    /\ panic = "UnexpectedLabel"
    /\ Len(out) = 1


(***************************************************************************)
(* The text around the records, in the grammar parser.                     *)
(***************************************************************************)
\* the lines from the first "$$SOE" line on
FromSoe(ls) == SubSeq(ls, FirstSoe(ls), Len(ls))

\* what parse() gives for the lines from the first "$$SOE" on, by themselves
WithoutHeader == parse(TextOf(FromSoe(lines)))

\* C28: the grammar parser skips any text before "$$SOE": whatever the
\* header holds, a "$" included, the records after it are parsed and
\* returned, as they are without the header.
C28_AnyHeaderSkipped ==
    (kind = "elements" /\ gram.run /\ FirstSoe(lines) > 1) =>
        \A alone \in {WithoutHeader} :
            alone.outcome = "ok" =>
                /\ gram.outcome = "ok"
                /\ gram.items = alone.items


\* the index of the first "$$EOE" line after the first "$$SOE" line, 0
\* without one
FirstEoe(ls) ==
    IF FirstSoe(ls) > 0 /\ \E i \in (FirstSoe(ls) + 1)..Len(ls) : ls[i] = "$$EOE"
    THEN CHOOSE i \in (FirstSoe(ls) + 1)..Len(ls) :
            ls[i] = "$$EOE" /\ \A j \in (FirstSoe(ls) + 1)..(i - 1) : ls[j] # "$$EOE"
    ELSE 0

\* what parse() gives for the lines up to that "$$EOE", by themselves
WithoutTrailer == parse(TextOf(SubSeq(lines, 1, FirstEoe(lines))))

\* C29: the grammar parser ignores the text after "$$EOE", further "$$SOE"
\* and "$$EOE" markers and malformed records included: with or without it
\* the parse succeeds or fails alike and returns the same records.
C29_TrailerIgnored ==
    [][(kind = "elements" /\ ~gram.run /\ gram'.run /\ FirstEoe(lines) > 0) =>
          \A alone \in {WithoutTrailer} :
              /\ gram'.outcome = alone.outcome
              /\ gram'.items = alone.items
              /\ gram'.panic = alone.panic]_vars

\* two records returned from a text with a third, malformed one and a second
\* "$$EOE" after the first "$$EOE"
C29_Witness ==
    /\ kind = "elements"
    /\ gram.run
    /\ gram.outcome = "ok"
    /\ Len(gram.items) = 2
    /\ FirstEoe(lines) > 0
    /\ Len(lines) = FirstEoe(lines) + 3
    /\ lines[Len(lines) - 1] = ERowABadNumber
    /\ lines[Len(lines)] = "$$EOE"


(***************************************************************************)
(* Fields by position.                                                     *)
(***************************************************************************)
\* the text of the i-th field of a data line: the 22 characters after the
\* i-th 4-character label, or what the line has of them
FieldAt(line, i) ==
    SubSeq(line, 5 + (i - 1) * (4 + FieldWidth),
           IF Len(line) < i * (4 + FieldWidth) THEN Len(line)
           ELSE i * (4 + FieldWidth))

\* the last iteration read a line where a data row was due
RowRead == ~seen.eof /\ seen.tag \in RowTags(kind)

\* the three values the iteration that read a row has stored
Stored ==
    IF kind = "vector"
    THEN IF seen.tag = "Date" THEN state.position ELSE state.velocity
    ELSE CASE seen.tag = "Date" ->
                <<state.eccentricity, state.periapsis_distance, state.inclination>>
           [] seen.tag = "FirstRow" ->
                <<state.longitude_of_ascending_node, state.argument_of_perifocus,
                  state.time_of_periapsis>>
           [] seen.tag = "SecondRow" ->
                <<state.mean_motion, state.mean_anomaly, state.true_anomaly>>
           [] OTHER ->
                <<out[Len(out)].semi_major_axis, out[Len(out)].apoapsis_distance,
                  out[Len(out)].siderral_orbit_period>>

\* C30: fields are taken by position: after a 4-character label exactly 22
\* characters are split off as the field and the next label must start right
\* after them; only the last field of a line may be shorter than 22
\* characters (what there is of it is used, without an error), and the text
\* after the third field of a line is ignored.
C30_FieldsByPosition ==
    RowRead =>
        /\ ~LabelsInPlace(seen.line, ExpectedLabels(kind, seen.tag)) =>
               (pc = "panicked" /\ panic = "UnexpectedLabel")
        /\ pc # "panicked" =>
               \A i \in 1..3 :
                   \A v \in {ParseF32(Trim(FieldAt(seen.line, i)))} :
                       v.ok /\ Stored[i] = v.val
        /\ ( /\ LabelsInPlace(seen.line, ExpectedLabels(kind, seen.tag))
             /\ \A i \in 1..3 : ParseF32(Trim(FieldAt(seen.line, i))).ok ) =>
               pc # "panicked"

\* a position line with text after its third field gave the three values
\* of its fields
C30_Witness ==
    /\ kind = "vector"
    /\ seen = [tag |-> "Date", line |-> VPosTrailing, eof |-> FALSE]
    /\ pc = "running"
    /\ state.tag = "Position"
    /\ state.position = <<Num(FALSE, 25, -1), Num(TRUE, 7125, -2), Num(FALSE, 0, 0)>>


(***************************************************************************)
(* What a call that returns a record has read and what it leaves behind.   *)
(***************************************************************************)
\* the call that has just ended returned a record
Yielded == pc = "idle" /\ ret = "Some" /\ seen.tag # "-" /\ ~seen.eof

\* the lines of a record after its date line, the last physical line included
LinesAfterDate(k) == IF k = "vector" THEN 3 ELSE 4

\* C31: a call of next() that returns a record has read the lines up to and
\* including the last physical line of that record and no line after it, and
\* leaves the parser in WaitingForDate with no value of the record in it.
C31_NoReadAhead ==
    Yielded =>
        /\ state = [tag |-> "WaitingForDate"]
        /\ pos > LinesAfterDate(kind)
        /\ pos <= Len(lines)
        /\ reads > LinesAfterDate(kind)
        /\ seen.line = lines[pos]
        /\ seen.tag = (IF kind = "vector" THEN "Complete" ELSE "ThirdRow")
        /\ out # <<>>
        /\ out[Len(out)].time = PrintedTime(lines[pos - LinesAfterDate(kind)])
        /\ IF kind = "vector"
           THEN \A i \in 1..3 :
                   out[Len(out)].velocity[i] = ParseF32(Trim(FieldAt(lines[pos - 1], i))).val
           ELSE out[Len(out)].siderral_orbit_period =
                   ParseF32(Trim(FieldAt(lines[pos], 3))).val

\* the first record of two was returned with the date line of the second
\* one still unread
C31_Witness ==
    /\ Yielded
    /\ Len(out) = 1
    /\ pos + LinesAfterDate(kind) < Len(lines)
    /\ parse_date_time(lines[pos + 1]).ok
    /\ state = [tag |-> "WaitingForDate"]


(***************************************************************************)
(* Termination of a call and of the collection of the whole sequence.      *)
(***************************************************************************)
\* a step of the loop of next(): it takes exactly one line from the input,
\* or finds the input drained and returns None without taking one
LoopStep ==
    \/ /\ pos < Len(lines)
       /\ pos' = pos + 1
       /\ reads' = reads + 1
    \/ /\ pos = Len(lines)
       /\ pos' = pos
       /\ reads' = reads
       /\ pc' = "idle"
       /\ ret' = "None"

\* the call ends at this step by returning a record or None
Returns == pc' = "idle" /\ ret' \in {"Some", "None"}

\* C32: on every finite line sequence each call of next() terminates: every
\* iteration of the loop takes exactly one line, the call has taken no more
\* lines than there were when it was called, and it ends by returning a
\* record or None; every record returned
\* has cost its lines, so collecting the sequence takes at most one call per
\* record group of the input and one more.
C32_EveryCallReturns ==
    /\ [](pos <= Len(lines) /\ reads <= pos)
    /\ [](Len(out) * (LinesAfterDate(kind) + 1) <= pos)
    /\ [][pc = "running" => (LoopStep /\ (pc' # "running" => Returns))]_vars


(***************************************************************************)
(* A call made in state End.                                               *)
(***************************************************************************)
\* next() is running with the parser in state End
RunningInEnd == pc = "running" /\ state = [tag |-> "End"]

\* C33: in state End a call of next() leaves the state of the parser as it is
\* and returns None, and it does not drain the input: the step it takes in
\* End ends the call after at most one further line of the line source, so a
\* call made in End takes at most one line.
C33_EndTakesOneLine ==
    [][RunningInEnd =>
          /\ state' = state
          /\ out' = out
          /\ pc' = "idle"
          /\ ret' = "None"
          /\ pos' = (IF pos < Len(lines) THEN pos + 1 ELSE pos)
          /\ reads' = reads + (pos' - pos)
          /\ reads = 0 => reads' <= 1]_vars

\* a call made in End returned None having taken one line, with lines left
\* in the input after it
C33_Witness ==
    /\ state = [tag |-> "End"]
    /\ pc = "idle"
    /\ ret = "None"
    /\ seen.tag = "End"
    /\ ~seen.eof
    /\ reads = 1
    /\ pos < Len(lines)


(***************************************************************************)
(* The queries and the waits of query_with_retries.                        *)
(***************************************************************************)
\* the queries a call with this value of retries may issue
Budget(retries) == IF retries > 1 THEN retries - 1 ELSE 0

\* C34: query_with_retries(retries) issues its queries one after another,
\* returns Ok with the result of the first query that succeeds and issues no
\* query after it, and returns Err only when every attempt has failed; it
\* issues at most retries-1 queries (none for retries 0 or 1, where it returns
\* Err without a query) and waits one second after every failed attempt, the
\* last one included.
C34_RetriesOneByOne ==
    /\ [](retry # NotCalled =>
             /\ retry.queries <= Budget(retry.retries)
             /\ retry.retries <= 1 =>
                    (retry.pc = "done" /\ retry.result = [tag |-> "Err"]
                     /\ retry.queries = 0 /\ retry.sleeps = 0)
             /\ retry.pc = "query" =>
                    (retry.queries = retry.n - 1 /\ retry.failed = retry.queries
                     /\ retry.sleeps = retry.failed)
             /\ retry.pc = "sleep" =>
                    (retry.queries = retry.n /\ retry.failed = retry.queries
                     /\ retry.sleeps = retry.failed - 1)
             /\ (retry.pc = "done" /\ retry.result.tag = "Ok") =>
                    (retry.queries >= 1 /\ retry.failed = retry.queries - 1
                     /\ retry.sleeps = retry.failed)
             /\ (retry.pc = "done" /\ retry.result.tag = "Err") =>
                    (retry.queries = Budget(retry.retries)
                     /\ retry.failed = retry.queries
                     /\ retry.sleeps = retry.queries))
    /\ [][(retry.pc = "query" /\ retry'.result.tag = "Ok") =>
              retry'.result.lines \in {a.lines : a \in {b \in Answers : b.ok}}]_vars
    /\ [][retry.pc = "done" => retry' = retry]_vars

\* a call with retries = 10 returned Err after nine failed queries and nine
\* waits
C34_Witness ==
    /\ retry.pc = "done"
    /\ retry.retries = 10
    /\ retry.result = [tag |-> "Err"]
    /\ retry.queries = 9
    /\ retry.failed = 9
    /\ retry.sleeps = 9


(***************************************************************************)
(* What the setters of the builder change and what they leave alone.       *)
(***************************************************************************)
BuilderFields == {"id", "center", "start", "end", "time_step"}

\* the fields a setter names
Named(name) ==
    CASE name = "with_id" -> {"id"}
      [] name = "with_start" -> {"start"}
      [] name = "with_end" -> {"end"}
      [] name = "with_range" -> {"start", "end"}
      [] name = "with_center" -> {"center"}

\* what a field holds once the value v has been given for it
Held(f, v) == IF f \in {"start", "end"} THEN Some(v) ELSE v

\* the last call that gave a value for the field f, 0 without one
LastGiving(f) ==
    IF \E k \in 1..Len(calls) : f \in DOMAIN calls[k].given
    THEN CHOOSE k \in 1..Len(calls) :
             /\ f \in DOMAIN calls[k].given
             /\ \A j \in (k + 1)..Len(calls) : f \notin DOMAIN calls[j].given
    ELSE 0

\* C35: each setter of the builder (with_id, with_start, with_end, with_range,
\* with_center) returns a builder that differs from its receiver in the
\* field(s) it names and nowhere else, and the receiver is left as it was; so
\* after any sequence of setters each field holds the value given for it
\* last, and a field never given one holds the default of from_id (center 10,
\* no start, no end, no time step).
C35_SettersChangeTheirFieldOnly ==
    /\ \A k \in 1..Len(calls) :
           /\ DOMAIN calls[k].given = Named(chain[k])
           /\ \A f \in BuilderFields :
                  calls[k].result[f] =
                      IF f \in DOMAIN calls[k].given
                      THEN Held(f, calls[k].given[f])
                      ELSE calls[k].self[f]
           /\ k > 1 => calls[k].self = calls[k - 1].result
    /\ calls # <<>> =>
           /\ builder = calls[Len(calls)].result
           /\ \A f \in BuilderFields :
                  builder[f] =
                      IF LastGiving(f) > 0
                      THEN Held(f, calls[LastGiving(f)].given[f])
                      ELSE calls[1].self[f]
           /\ calls[1].self.center = 10
           /\ calls[1].self.start = None
           /\ calls[1].self.end = None
           /\ calls[1].self.time_step = None
    /\ builder # NoBuilder => builder.time_step = None

\* with_range and then with_id: the range given first is still there, the
\* center is the default
C35_Witness ==
    /\ chain = <<"with_range", "with_id">>
    /\ builder.id = 399
    /\ calls[1].self.id = 301
    /\ builder.center = 10
    /\ builder.start = Some(Time(2016, 10, 15, 12, 0, 0))
    /\ builder.end = Some(Time(2016, 10, 15, 13, 0, 0))


(***************************************************************************)
(* The result Query::parse selects.                                        *)
(***************************************************************************)
\* parse() was called on the query held and the service answered it, if asked
ParseAnswered == qparsed.run /\ qparsed.at # "unwrap"

\* C36: Query::parse selects its result by the kind of the query and reaches
\* the parser that goes with it: with a MajorBody command it gives
\* MajorBodies, whatever the ephemeris type; for a query from
\* Query::vectors() it gives Vector, from the vector streaming parser; for
\* one from Query::elements() it gives Elements, from the orbital-element
\* streaming parser; and it does not abort while the parameters of the
\* request are built.
C36_ParseSelectsByKind ==
    ParseAnswered =>
        /\ query.command = Some([tag |-> "MajorBody"]) =>
               (qparsed.ok /\ qparsed.tag = "MajorBodies")
        /\ query = Query_vectors =>
               /\ qparsed.at = "branches"
               /\ qparsed.ok => qparsed.tag = "Vector"
               /\ \E a \in Answers :
                      a.ok /\ Collect(Fresh("vector", a.lines)) =
                                 (IF qparsed.ok
                                  THEN [ok |-> TRUE, items |-> qparsed.items]
                                  ELSE [ok |-> FALSE, panic |-> qparsed.panic])
        /\ query = Query_elements =>
               /\ qparsed.at = "branches"
               /\ qparsed.ok => qparsed.tag = "Elements"
               /\ \E a \in Answers :
                      a.ok /\ Collect(Fresh("elements", a.lines)) =
                                 (IF qparsed.ok
                                  THEN [ok |-> TRUE, items |-> qparsed.items]
                                  ELSE [ok |-> FALSE, panic |-> qparsed.panic])


(***************************************************************************)
(* The e-mail address of a query.                                          *)
(***************************************************************************)
\* where the character c stands in s
PlacesOf(s, c) == {i \in 1..Len(s) : CharAt(s, i) = c}

\* exactly one "@", and at least two "." after it
Accepted(addr) ==
    /\ Cardinality(PlacesOf(addr, "@")) = 1
    /\ \A at \in PlacesOf(addr, "@") :
           Cardinality({i \in PlacesOf(addr, ".") : i > at}) >= 2

\* the names of the parameters asked for
NamesOf(ps) == {ps[i][1] : i \in 1..Len(ps)}

\* C37: set_email_addr(Some(addr)) stores addr, and EMAIL_ADDR = addr is then
\* among the parameters, exactly when addr has exactly one "@" and at least
\* two "." after it; every other address ("user@example.com" too) ends in a
\* failed assertion; after set_email_addr(None) no address is held and no
\* EMAIL_ADDR parameter is emitted.  (What EmailAddressType::new does with an
\* address does not depend on the query: it is looked at for every address
\* where the query is as Query::default() made it.)
C37_EmailAddressChecked ==
    /\ query = QueryDefault =>
           \A addr \in EmailAddresses :
               /\ Accepted(addr) =>
                      EmailAddressType_new(addr) = [ok |-> TRUE, v |-> Some(addr)]
               /\ ~Accepted(addr) =>
                      /\ ~EmailAddressType_new(addr).ok
                      /\ EmailAddressType_new(addr).panic \in
                             {"Email address does not contain @",
                              "Email address does not contain valid domain"}
    /\ query.email_addr # None =>
           (query.email_addr.v \in EmailAddresses /\ Accepted(query.email_addr.v))
    /\ qpanic \in {"Email address does not contain @",
                    "Email address does not contain valid domain"} =>
           (qpc = "panicked" /\ \E addr \in EmailAddresses : ~Accepted(addr))
    /\ qparams.run =>
           IF query.email_addr = None
           THEN "EMAIL_ADDR" \notin NamesOf(qparams.pairs)
           ELSE /\ <<"EMAIL_ADDR", query.email_addr.v>> \in PairsOf(qparams.pairs)
                /\ \A i \in 1..Len(qparams.pairs) :
                       qparams.pairs[i][1] = "EMAIL_ADDR" =>
                           qparams.pairs[i][2] = query.email_addr.v

\* the address "user@a..b" was stored and is among the parameters asked for
C37_Witness ==
    /\ query.email_addr = Some("user@a..b")
    /\ qparams.run
    /\ qparams.pairs[Len(qparams.pairs)] = <<"EMAIL_ADDR", "user@a..b">>

=============================================================================
